---- MODULE Spec2Model ----
(***************************************************************************)
(* A model of gitty's read-only object store: identifier resolution        *)
(* (store/util.rs), backend selection and the facade (store/mod.rs), the   *)
(* loose backend (store/loose.rs), the pack backend (store/pack.rs), the   *)
(* delta resolver (store/delta.rs) and the cat-file command (main.rs with  *)
(* the loose-only store of object.rs).                                     *)
(*                                                                         *)
(* Strings are sequences of one-character strings, byte strings are        *)
(* sequences of numbers 0..255.  The file system under .git/objects is the *)
(* state: it is read, never written, by every operation.                   *)
(***************************************************************************)
EXTENDS Integers, Sequences, FiniteSets, TLC

\* let v = ...; the rest of the block, F, reads the value bound once.
Bind(v, F(_)) == F(v)

\* ------------------------------------------------------------------------
\* Program constants
\* ------------------------------------------------------------------------

MIN_USER_HASH_LEN == 4

SHA1_HASH_SIZE == 20

\* ------------------------------------------------------------------------
\* Bounds of the model
\* ------------------------------------------------------------------------

\* Longest literal run the pack writer of the model emits in one delta.
MaxInsert == 2

\* Deepest chain of offset-deltas the pack writer of the model builds.
MaxChain == 3

\* Longest instruction block of the arbitrary (possibly malformed) deltas.
MaxInstr == 3

\* Largest result-size an arbitrary delta declares.
MaxResult == 2

\* Longest arbitrary byte string given to a varint reader.
MaxBytes == 3

\* Most ids in a pack index.
MaxIdx == 3

\* Most continuation bytes (MSB set) in front of the last byte of a long
\* varint.
MaxCont == 10

\* ------------------------------------------------------------------------
\* Bytes, bits and hexadecimal text
\* ------------------------------------------------------------------------

Pow2(n) == 2 ^ n

\* Bit k (0 = least significant) of the number b.
Bit(b, k) == (b \div Pow2(k)) % 2

HexDigits == <<"0", "1", "2", "3", "4", "5", "6", "7",
               "8", "9", "a", "b", "c", "d", "e", "f">>

UpperDigits == <<"0", "1", "2", "3", "4", "5", "6", "7",
                 "8", "9", "A", "B", "C", "D", "E", "F">>

\* The value of one hex character, -1 when it is none (hex crate, val()).
HexVal(c) ==
    IF \E i \in 1..16 : HexDigits[i] = c
    THEN (CHOOSE i \in 1..16 : HexDigits[i] = c) - 1
    ELSE IF \E i \in 1..16 : UpperDigits[i] = c
    THEN (CHOOSE i \in 1..16 : UpperDigits[i] = c) - 1
    ELSE -1

\* hex::decode: the length is tested first, then the characters in pairs.
\* [err |-> "OddLength" | "InvalidHexCharacter" | "", bytes |-> ...]
hex_decode(s) ==
    IF Len(s) % 2 # 0
    THEN [err |-> "OddLength", bytes |-> <<>>]
    ELSE IF \E i \in 1..Len(s) : HexVal(s[i]) < 0
    THEN [err |-> "InvalidHexCharacter", bytes |-> <<>>]
    ELSE [err |-> "",
          bytes |-> [i \in 1..(Len(s) \div 2) |->
                        16 * HexVal(s[2 * i - 1]) + HexVal(s[2 * i])]]

\* hex::encode, the Display of an ObjectId: 40 lowercase characters.
hex_encode(bytes) ==
    [i \in 1..(2 * Len(bytes)) |->
        IF i % 2 = 1 THEN HexDigits[(bytes[(i + 1) \div 2] \div 16) + 1]
                     ELSE HexDigits[(bytes[i \div 2] % 16) + 1]]

\* slice::starts_with
starts_with(s, p) ==
    Len(p) <= Len(s) /\ \A i \in 1..Len(p) : s[i] = p[i]

\* The first n elements of s.
Take(s, n) == SubSeq(s, 1, n)

\* s without its first n elements.
Drop(s, n) == SubSeq(s, n + 1, Len(s))

\* n copies of x.
Rep(n, x) == [i \in 1..n |-> x]

\* Element i of s, counted from 0 as the code counts.
At(s, i) == s[i + 1]

\* s[from..to) in the code's 0-based, half-open notation.
Slice(s, from, to) == SubSeq(s, from + 1, to)

\* ------------------------------------------------------------------------
\* Outcomes.  Every fallible operation yields a record whose field st is
\* "some" (a value), "none" (Option::None, the error value), "panic" (the
\* process aborts) or "hang" (the operation never returns).
\* ------------------------------------------------------------------------

None == [st |-> "none"]

Panic == [st |-> "panic"]

Hang == [st |-> "hang"]

\* ------------------------------------------------------------------------
\* zlib.  A compressed stream is modelled as a sequence of runs <<n, b>>;
\* the decoder yields n times the byte b for each run.  The runs are
\* expanded by halves, which keeps the evaluation shallow.
\* ------------------------------------------------------------------------

RECURSIVE Inflate(_)
Inflate(z) ==
    IF z = <<>> THEN <<>>
    ELSE IF Len(z) = 1 THEN Rep(z[1][1], z[1][2])
    ELSE Inflate(Take(z, Len(z) \div 2)) \o Inflate(Drop(z, Len(z) \div 2))

\* Decoder::read_exact into a buffer of n bytes: the first n bytes of the
\* stream, an error when the stream ends before.
read_exact(z, n) ==
    LET raw == Inflate(z)
    IN  IF Len(raw) < n THEN None
        ELSE [st |-> "some", data |-> Take(raw, n)]

\* Decoder::read_to_end
read_to_end(z) == Inflate(z)

\* ------------------------------------------------------------------------
\* Varint readers.  Each reads from the byte sequence s (the stream at its
\* current position) and yields the accumulator and the number of bytes
\* used.  The accumulator is a u64, modelled as the set of the positions
\* 0..63 of its one-bits so that the bits a shift pushes out are lost as
\* the machine loses them.
\* ------------------------------------------------------------------------

\* The one-bits of a byte.
BitsOf(b) == {k \in 0..7 : Bit(b, k) = 1}

\* x << n on u64, n < 64: the bits shifted beyond bit 63 are dropped.
Shl(x, n) == {k + n : k \in x} \cap 0..63

\* x + 1 on u64, x below u64::MAX: the lowest zero becomes one, the ones
\* below it zero.
Inc(x) ==
    LET z == CHOOSE k \in 0..63 : k \notin x /\ \A j \in 0..(k - 1) : j \in x
    IN  {k \in x : k > z} \cup {z}

\* The number a u64 holds, for the values below 2^31.
RECURSIVE AsInt(_)
AsInt(x) ==
    IF x = {} THEN 0
    ELSE LET k == CHOOSE k \in x : TRUE
         IN  Pow2(k) + AsInt(x \ {k})

\* The loop of read_kind_length_obj_header and of size_decode: while the
\* last byte read had its MSB set, or in the next byte's low 7 bits at
\* bit n.  A shift by 64 or more panics in a debug build and shifts by
\* n mod 64 in a release build.
RECURSIVE size_loop(_, _, _, _, _, _)
size_loop(s, used, byte, decoded, n, build) ==
    IF byte < 128 THEN [st |-> "some", acc |-> decoded, used |-> used]
    ELSE IF used >= Len(s) THEN None
    ELSE IF n >= 64 /\ build = "debug" THEN Panic
    ELSE size_loop(s, used + 1, At(s, used),
                   decoded \cup Shl(BitsOf(At(s, used) % 128), n % 64),
                   n + 7, build)

\* The packed-object header: 3-bit type, 4 + 7k bit length.
\* Types 0 and 5 are "Unsupported object type!".
read_kind_length_obj_header(s, build) ==
    IF Len(s) = 0 THEN None
    ELSE LET byte == At(s, 0)
             kind == (byte \div 16) % 8
         IN  IF kind \notin {1, 2, 3, 4, 6, 7} THEN None
             ELSE LET r == size_loop(s, 1, byte, BitsOf(byte % 16), 4, build)
                  IN  IF r.st # "some" THEN r
                      ELSE [st |-> "some", kind |-> kind,
                            length |-> r.acc, used |-> r.used]

\* The base-size and result-size prefixes of a delta payload.
size_decode(s, build) ==
    IF Len(s) = 0 THEN None
    ELSE size_loop(s, 1, At(s, 0), BitsOf(At(s, 0) % 128), 7, build)

\* The loop of read_negative_relative_offset if it did not add one before
\* each shift.
RECURSIVE ofs_loop_unbiased(_, _, _, _, _)
ofs_loop_unbiased(s, used, byte, offs, build) ==
    IF byte < 128 THEN [st |-> "some", acc |-> offs, used |-> used]
    ELSE IF used >= Len(s) THEN None
    ELSE ofs_loop_unbiased(s, used + 1, At(s, used),
                           Shl(offs, 7) \cup BitsOf(At(s, used) % 128),
                           build)

\* The loop of read_negative_relative_offset: += 1 (on u64::MAX a debug
\* build panics, a release build wraps to 0), <<= 7, the next byte, |=.
RECURSIVE ofs_loop(_, _, _, _, _)
ofs_loop(s, used, byte, offs, build) ==
    IF byte < 128 THEN [st |-> "some", acc |-> offs, used |-> used]
    ELSE IF offs = 0..63 /\ build = "debug" THEN Panic
    ELSE IF used >= Len(s) THEN None
    ELSE ofs_loop(s, used + 1, At(s, used),
                  Shl(IF offs = 0..63 THEN {} ELSE Inc(offs), 7)
                      \cup BitsOf(At(s, used) % 128),
                  build)

\* The negative relative offset of an OBJ_OFS_DELTA.
read_negative_relative_offset(s, build) ==
    IF Len(s) = 0 THEN None
    ELSE ofs_loop(s, 1, At(s, 0), BitsOf(At(s, 0) % 128), build)

\* ------------------------------------------------------------------------
\* The delta bytecode (store/delta.rs, apply_delta)
\* ------------------------------------------------------------------------

\* dest with the bytes src written at position dp.
Overwrite(dest, dp, src) ==
    Take(dest, dp) \o src \o Drop(dest, dp + Len(src))

\* Vec::resize(n, 0): truncated, or padded with zeros; what is kept stays.
resize(v, n) ==
    IF n <= Len(v) THEN Take(v, n) ELSE v \o Rep(n - Len(v), 0)

\* The fields of a copy instruction if its size bytes were taken most
\* significant byte first.
CopyFieldsSizeMsbFirst(instructions, ip) ==
    LET cmd == At(instructions, ip)
        present == {f \in 0..6 : Bit(cmd, f) = 1}
        opidx(f) == ip + Cardinality({g \in present : g <= f})
        data_pointer == ip + Cardinality(present)
        field(f) == IF f \in present THEN At(instructions, opidx(f)) ELSE 0
    IN  IF data_pointer >= Len(instructions)
        THEN [oob |-> TRUE, data_pointer |-> data_pointer,
              offset |-> 0, size |-> 0]
        ELSE [oob |-> FALSE, data_pointer |-> data_pointer,
              offset |-> field(0) + field(1) * Pow2(8)
                         + field(2) * Pow2(16) + field(3) * Pow2(24),
              size |-> field(6) + field(5) * Pow2(8) + field(4) * Pow2(16)]

\* The fields of the copy instruction at ip: operand bytes follow the
\* command byte in the order of the set bits 0..6.
CopyFields(instructions, ip) ==
    LET cmd == At(instructions, ip)
        present == {f \in 0..6 : Bit(cmd, f) = 1}
        opidx(f) == ip + Cardinality({g \in present : g <= f})
        data_pointer == ip + Cardinality(present)
        field(f) == IF f \in present THEN At(instructions, opidx(f)) ELSE 0
    IN  IF data_pointer >= Len(instructions)
        THEN [oob |-> TRUE, data_pointer |-> data_pointer,
              offset |-> 0, size |-> 0]
        ELSE [oob |-> FALSE, data_pointer |-> data_pointer,
              offset |-> field(0) + field(1) * Pow2(8)
                         + field(2) * Pow2(16) + field(3) * Pow2(24),
              size |-> field(4) + field(5) * Pow2(8) + field(6) * Pow2(16)]

\* The size a copy instruction copies, as the code takes it from the size
\* bytes.
CopySize(size) == size

\* An index or a slice bound outside its buffer panics; apply_delta has no
\* other way to fail.
RECURSIVE apply_loop(_, _, _, _, _)
apply_loop(base_buffer, dest_buffer, instructions, ip, dp) ==
    IF ip >= Len(instructions)
    THEN [st |-> "some", dest |-> dest_buffer, dp |-> dp]
    ELSE IF At(instructions, ip) >= 128
    THEN LET c == CopyFields(instructions, ip)
             size == CopySize(c.size)
         IN  IF c.oob THEN Panic
             ELSE IF dp + size > Len(dest_buffer) THEN Panic
             ELSE IF c.offset + size > Len(base_buffer) THEN Panic
             ELSE apply_loop(base_buffer,
                     Overwrite(dest_buffer, dp,
                               Slice(base_buffer, c.offset, c.offset + size)),
                     instructions, c.data_pointer + 1, dp + size)
    ELSE LET size == At(instructions, ip)
             data_start == ip + 1
         IN  IF dp + size > Len(dest_buffer) THEN Panic
             ELSE IF data_start + size > Len(instructions) THEN Panic
             ELSE apply_loop(base_buffer,
                     Overwrite(dest_buffer, dp,
                               Slice(instructions, data_start, data_start + size)),
                     instructions, ip + 1 + size, dp + size)

apply_delta(base_buffer, dest_buffer, instructions) ==
    apply_loop(base_buffer, dest_buffer, instructions, 0, 0)

\* ------------------------------------------------------------------------
\* The delta resolver (store/delta.rs, resolve_delta)
\*
\* A pack file is a function from the offsets at which an object starts to
\* the object stored there: pre, the bytes before the zlib stream (the
\* header and, for an offset-delta, the negative offset) and z, the zlib
\* stream.  A read at any other offset fails.
\* ------------------------------------------------------------------------

\* The loop that follows the chain, pushing a frame per offset-delta.
\* start_offset - negative_offset on u64: a debug build panics on
\* underflow, a release build wraps and the seek to the wrapped offset
\* (beyond i64) fails.  A negative offset of 0 leads back to the same
\* object: the loop pushes frames without end.
RECURSIVE follow_chain(_, _, _, _)
follow_chain(objs, start_offset, delta_stack, build) ==
    IF start_offset \notin DOMAIN objs THEN None
    ELSE
    Bind(objs[start_offset], LAMBDA e :
    Bind(read_kind_length_obj_header(e.pre, build), LAMBDA h :
    IF h.st # "some" THEN h
    ELSE IF h.kind = 7 THEN Panic
    ELSE IF h.kind # 6
    THEN IF h.used # Len(e.pre) THEN None
         ELSE [st |-> "some", start_offset |-> start_offset,
               kind |-> h.kind, delta_stack |-> delta_stack]
    ELSE
    Bind(read_negative_relative_offset(Drop(e.pre, h.used), build), LAMBDA o :
    IF o.st # "some" THEN o
    ELSE IF h.used + o.used # Len(e.pre) THEN None
    ELSE
    Bind(read_exact(e.z, AsInt(h.length)), LAMBDA d :
    IF d.st # "some" THEN None
    ELSE
    Bind(size_decode(d.data, build), LAMBDA bs :
    IF bs.st # "some" THEN bs
    ELSE
    Bind(size_decode(Drop(d.data, bs.used), build), LAMBDA rs :
    IF rs.st # "some" THEN rs
    ELSE
    Bind([base_size |-> AsInt(bs.acc),
          result_size |-> AsInt(rs.acc),
          instructions |-> Drop(d.data, bs.used + rs.used)], LAMBDA frame :
    IF AsInt(o.acc) > start_offset
    THEN IF build = "debug" THEN Panic ELSE None
    ELSE IF o.acc = {} THEN Hang
    ELSE follow_chain(objs, start_offset - AsInt(o.acc),
                      Append(delta_stack, frame), build))))))))

\* while let Some(item) = delta_stack.pop(): the frames left on the stack,
\* last pushed first; the previous result becomes the base, the previous
\* base, resized, the destination.
RECURSIVE pop_frames(_, _, _)
pop_frames(delta_stack, base_buffer, dest_buffer) ==
    IF delta_stack = <<>> THEN [st |-> "some", data |-> dest_buffer]
    ELSE
    Bind(delta_stack[Len(delta_stack)], LAMBDA item :
    Bind(apply_delta(dest_buffer, resize(base_buffer, item.result_size),
                     item.instructions), LAMBDA r :
    IF r.st = "panic" THEN Panic
    ELSE pop_frames(Take(delta_stack, Len(delta_stack) - 1),
                    dest_buffer, r.dest)))

resolve_delta(objs, offset, build) ==
    Bind(follow_chain(objs, offset, <<>>, build), LAMBDA c :
    IF c.st # "some" THEN c
    ELSE IF Len(c.delta_stack) = 0 THEN None
    ELSE
    Bind(c.delta_stack[Len(c.delta_stack)], LAMBDA initial_delta :
    Bind(read_exact(objs[c.start_offset].z, initial_delta.base_size), LAMBDA b :
    IF b.st # "some" THEN None
    ELSE
    Bind(apply_delta(b.data, Rep(initial_delta.result_size, 0),
                     initial_delta.instructions), LAMBDA r :
    IF r.st = "panic" THEN Panic
    ELSE
    Bind(pop_frames(Take(c.delta_stack, Len(c.delta_stack) - 1),
                    b.data, r.dest), LAMBDA p :
    IF p.st # "some" THEN p
    ELSE [st |-> "some", kind |-> c.kind, data |-> p.data])))))

\* ------------------------------------------------------------------------
\* State: the file system under .git/objects, the build, and the last
\* operation run with its argument and outcome.
\* ------------------------------------------------------------------------

VARIABLES
    loose,   \* loose object files in read_dir order: [id, z]
    packs,   \* packs in read_dir order: [name, locations, magic, objs]
    build,   \* "debug" or "release": whether integer overflow panics
    op,      \* the operation run last ("init" before any)
    arg,     \* its argument
    res,     \* its outcome
    world    \* what the writer stored (never read by the program)

vars == <<loose, packs, build, op, arg, res, world>>

\* ------------------------------------------------------------------------
\* Object bodies (store/object.rs).  A parsed object is a record with st,
\* kind and the fields of its GitObjectData variant.  A String is kept as
\* its bytes; an Option is <<>> or <<value>>.
\* ------------------------------------------------------------------------

Unmodelled == [st |-> "unmodelled"]

\* GitObjectStore::get, defined with the facade below; parse_tree_entry
\* calls it for the kind of every entry.
RECURSIVE get(_)

\* String::from_utf8_lossy: a byte that is no UTF-8 becomes U+FFFD
\* (EF BF BD).  The bytes >= 128 of this model never form a UTF-8 sequence.
RECURSIVE from_utf8_lossy(_)
from_utf8_lossy(bytes) ==
    IF bytes = <<>> THEN <<>>
    ELSE (IF bytes[1] < 128 THEN <<bytes[1]>> ELSE <<239, 191, 189>>)
         \o from_utf8_lossy(Tail(bytes))

\* take_while(|b| b != stop) on the iterator: the bytes before the first
\* stop byte, which is consumed as well; everything when there is none.
take_while(data, stop) ==
    IF \E i \in 1..Len(data) : data[i] = stop
    THEN Bind(CHOOSE i \in 1..Len(data) :
                  data[i] = stop /\ \A j \in 1..(i - 1) : data[j] # stop,
              LAMBDA i : [taken |-> Take(data, i - 1), rest |-> Drop(data, i)])
    ELSE [taken |-> data, rest |-> <<>>]

\* A loop that leaves the SP of a continuation line in the value.
RECURSIVE header_value_loop_keeping_sp(_, _)
header_value_loop_keeping_sp(data, header_value) ==
    Bind(take_while(data, 10), LAMBDA line :
    IF line.rest = <<>> THEN None
    ELSE IF line.rest[1] = 32
    THEN header_value_loop_keeping_sp(line.rest,
                                      header_value \o line.taken \o <<10>>)
    ELSE [st |-> "some", value |-> header_value \o line.taken,
          rest |-> line.rest])

\* The loop of parse_header: a line is added to the value; a following SP
\* is consumed and a newline pushed; the end of the data is an error.
RECURSIVE header_value_loop(_, _)
header_value_loop(data, header_value) ==
    Bind(take_while(data, 10), LAMBDA line :
    IF line.rest = <<>> THEN None
    ELSE IF line.rest[1] = 32
    THEN header_value_loop(Tail(line.rest),
                           header_value \o line.taken \o <<10>>)
    ELSE [st |-> "some", value |-> header_value \o line.taken,
          rest |-> line.rest])

parse_header(data) ==
    Bind(take_while(data, 32), LAMBDA header_key :
    Bind(header_value_loop(header_key.rest, <<>>), LAMBDA v :
    IF v.st # "some" THEN None
    ELSE [st |-> "some", key |-> from_utf8_lossy(header_key.taken),
          value |-> from_utf8_lossy(v.value), rest |-> v.rest]))

\* parse_headers: the headers up to a line that starts with LF, as the
\* pairs <<key, value>> in their order; headers.get(key) is the values of
\* the key in that order.
RECURSIVE parse_headers(_, _)
parse_headers(data, headers) ==
    IF data = <<>> THEN None
    ELSE IF data[1] = 10
    THEN [st |-> "some", headers |-> headers, rest |-> data]
    ELSE Bind(parse_header(data), LAMBDA header :
         IF header.st # "some" THEN None
         ELSE parse_headers(header.rest,
                            Append(headers, <<header.key, header.value>>)))

\* headers.get(key): <<>> stands for None.
headers_get(headers, key) ==
    Bind(SelectSeq(headers, LAMBDA h : h[1] = key), LAMBDA found :
    [i \in 1..Len(found) |-> found[i][2]])

\* A conversion that takes a slice of any length.
ObjectIdFromAnyLength(value) == [st |-> "some", id |-> value]

\* TryFrom<&[u8]> for ObjectId: exactly SHA1_HASH_SIZE bytes.
ObjectIdTryFrom(value) ==
    IF Len(value) = SHA1_HASH_SIZE THEN [st |-> "some", id |-> value]
    ELSE None

\* hex::decode(value).ok()?.as_slice().try_into().ok()?  The bytes of the
\* value are given to hex_decode as characters; "?" stands for a byte that
\* is no hex digit.
decode_id(value) ==
    LET AsciiChar(b) ==
            IF b >= 48 /\ b <= 57 THEN HexDigits[b - 47]
            ELSE IF b >= 97 /\ b <= 102 THEN HexDigits[b - 86]
            ELSE IF b >= 65 /\ b <= 70 THEN UpperDigits[b - 54]
            ELSE "?"
    IN  Bind(hex_decode([i \in 1..Len(value) |-> AsciiChar(value[i])]),
             LAMBDA decoded :
        IF decoded.err # "" THEN None ELSE ObjectIdTryFrom(decoded.bytes))

\* The header keys.
HeaderKeys ==
    [tree |-> <<116, 114, 101, 101>>,
     parent |-> <<112, 97, 114, 101, 110, 116>>,
     author |-> <<97, 117, 116, 104, 111, 114>>,
     committer |-> <<99, 111, 109, 109, 105, 116, 116, 101, 114>>,
     encoding |-> <<101, 110, 99, 111, 100, 105, 110, 103>>,
     gpgsig |-> <<103, 112, 103, 115, 105, 103>>,
     object |-> <<111, 98, 106, 101, 99, 116>>,
     type |-> <<116, 121, 112, 101>>,
     tag |-> <<116, 97, 103>>,
     tagger |-> <<116, 97, 103, 103, 101, 114>>]

parse_commit(data) ==
    Bind(parse_headers(data, <<>>), LAMBDA hs :
    IF hs.st # "some" THEN None
    ELSE IF headers_get(hs.headers, HeaderKeys.tree) = <<>> THEN None
    ELSE
    Bind(decode_id(headers_get(hs.headers, HeaderKeys.tree)[1]), LAMBDA tree :
    IF tree.st # "some" THEN None
    ELSE
    Bind(headers_get(hs.headers, HeaderKeys.parent), LAMBDA pv :
    Bind([i \in 1..Len(pv) |-> decode_id(pv[i])], LAMBDA decoded :
    IF \E i \in 1..Len(pv) : decoded[i].st # "some" THEN None
    ELSE IF headers_get(hs.headers, HeaderKeys.author) = <<>> THEN None
    ELSE IF headers_get(hs.headers, HeaderKeys.committer) = <<>> THEN None
    ELSE [st |-> "some", kind |-> "commit",
          tree |-> tree.id,
          parents |-> [i \in 1..Len(pv) |-> decoded[i].id],
          author |-> headers_get(hs.headers, HeaderKeys.author)[1],
          committer |-> headers_get(hs.headers, HeaderKeys.committer)[1],
          encoding |-> Bind(headers_get(hs.headers, HeaderKeys.encoding),
                            LAMBDA e : IF e = <<>> THEN <<>> ELSE <<e[1]>>),
          gpgsig |-> Bind(headers_get(hs.headers, HeaderKeys.gpgsig),
                          LAMBDA e : IF e = <<>> THEN <<>> ELSE <<e[1]>>),
          message |-> Tail(hs.rest)]))))

parse_tag(data) ==
    Bind(parse_headers(data, <<>>), LAMBDA hs :
    IF hs.st # "some" THEN None
    ELSE IF headers_get(hs.headers, HeaderKeys.object) = <<>> THEN None
    ELSE IF headers_get(hs.headers, HeaderKeys.type) = <<>> THEN None
    ELSE IF headers_get(hs.headers, HeaderKeys.tag) = <<>> THEN None
    ELSE IF headers_get(hs.headers, HeaderKeys.tagger) = <<>> THEN None
    ELSE
    Bind(decode_id(headers_get(hs.headers, HeaderKeys.object)[1]), LAMBDA object :
    IF object.st # "some" THEN None
    ELSE [st |-> "some", kind |-> "tag",
          object |-> object.id,
          type |-> headers_get(hs.headers, HeaderKeys.type)[1],
          tag |-> headers_get(hs.headers, HeaderKeys.tag)[1],
          tagger |-> headers_get(hs.headers, HeaderKeys.tagger)[1],
          message |-> Tail(hs.rest)]))

\* u32::from_str_radix(mode, 8): an optional +, then one or more digits
\* 0..7; -1 for an error.  The value is computed for up to ten digits,
\* which the integers of the model hold; a longer string is an overflow
\* of the u32 unless it has leading zeros, which no store of the model has.
RECURSIVE OctalValue(_, _)
OctalValue(digits, acc) ==
    IF digits = <<>> THEN acc
    ELSE OctalValue(Tail(digits), 8 * acc + (digits[1] - 48))

from_str_radix_8(mode) ==
    Bind(IF mode # <<>> /\ mode[1] = 43 THEN Tail(mode) ELSE mode,
         LAMBDA digits :
    IF digits = <<>> THEN -1
    ELSE IF \E i \in 1..Len(digits) : digits[i] < 48 \/ digits[i] > 55
    THEN -1
    ELSE IF Len(digits) > 10 THEN -1
    ELSE OctalValue(digits, 0))

\* GitObject::type_str
type_str(obj) == obj.kind

\* std::str::from_utf8(..).ok() is an error for bytes that are no UTF-8,
\* under the same assumption on the bytes >= 128 as above.
parse_tree_entry(data) ==
    Bind(take_while(data, 32), LAMBDA mode :
    Bind(take_while(mode.rest, 0), LAMBDA path :
    Bind(IF Len(path.rest) < SHA1_HASH_SIZE THEN path.rest
         ELSE Take(path.rest, SHA1_HASH_SIZE), LAMBDA id :
    IF \E i \in 1..Len(mode.taken) : mode.taken[i] >= 128 THEN None
    ELSE IF \E i \in 1..Len(path.taken) : path.taken[i] >= 128 THEN None
    ELSE IF from_str_radix_8(mode.taken) < 0 THEN None
    ELSE IF ObjectIdTryFrom(id).st # "some" THEN None
    ELSE
    Bind(get(id), LAMBDA object :
    IF object.st # "some" THEN object
    ELSE [st |-> "some",
          entry |-> [mode |-> from_str_radix_8(mode.taken),
                     kind |-> type_str(object),
                     path |-> path.taken,
                     id |-> id],
          rest |-> Drop(path.rest, SHA1_HASH_SIZE)]))))

\* while !data.peek().is_none() { entries.push(parse_tree_entry(..)?) }
RECURSIVE tree_loop(_, _)
tree_loop(data, entries) ==
    IF data = <<>>
    THEN [st |-> "some", kind |-> "tree", entries |-> entries]
    ELSE Bind(parse_tree_entry(data), LAMBDA e :
         IF e.st # "some" THEN e
         ELSE tree_loop(e.rest, Append(entries, e.entry)))

parse_tree(data) == tree_loop(data, <<>>)

parse_blob(data) == [st |-> "some", kind |-> "blob", data |-> data]

\* pack.rs parse_object: the dispatch on the packed type 1..4.
parse_object(kind, data) ==
    IF kind = 1 THEN parse_commit(data)
    ELSE IF kind = 2 THEN parse_tree(data)
    ELSE IF kind = 3 THEN parse_blob(data)
    ELSE parse_tag(data)

\* ------------------------------------------------------------------------
\* The loose backend (store/loose.rs)
\* ------------------------------------------------------------------------

\* Index (from 1) of the first element of s equal to b; 0 when there is none.
FirstIndex(s, b) ==
    IF \E i \in 1..Len(s) : s[i] = b
    THEN CHOOSE i \in 1..Len(s) : s[i] = b /\ \A j \in 1..(i - 1) : s[j] # b
    ELSE 0

\* str::parse::<usize> of ASCII decimal digits; -1 for ParseIntError.
RECURSIVE ParseDigits(_, _)
ParseDigits(s, acc) ==
    IF s = <<>> THEN acc
    ELSE IF s[1] < 48 \/ s[1] > 57 THEN -1
    ELSE ParseDigits(Tail(s), 10 * acc + (s[1] - 48))

parse_usize(s) == IF s = <<>> THEN -1 ELSE ParseDigits(s, 0)

\* The kind literals.
BlobLiteral == <<98, 108, 111, 98>>

KindLiteral ==
    [commit |-> <<99, 111, 109, 109, 105, 116>>,
     tree |-> <<116, 114, 101, 101>>,
     tag |-> <<116, 97, 103>>]

KindLiterals ==
    {BlobLiteral, KindLiteral.commit, KindLiteral.tree, KindLiteral.tag}

\* The header of one loose file, <kind> SP <size> NUL <payload>: the kind
\* bytes, the size and the payload.
loose_header(z) ==
    LET raw == read_to_end(z)
        nul == FirstIndex(raw, 0)
    IN  IF nul = 0 THEN None
        ELSE
        LET header == Take(raw, nul - 1)
            data == Drop(raw, nul)
            sp == FirstIndex(header, 32)
        IN  IF sp = 0 THEN None
            ELSE
            LET kind == Take(header, sp - 1)
                size == parse_usize(Drop(header, sp))
            IN  IF size < 0 THEN None
                ELSE [st |-> "some", kind |-> kind, size |-> size,
                      data |-> data]

\* The decoding of one loose file: the match on the kind bytes.
parse_loose(id, z) ==
    Bind(loose_header(z), LAMBDA h :
    IF h.st # "some" THEN None
    ELSE
    Bind(IF h.kind = BlobLiteral THEN parse_blob(h.data)
         ELSE IF h.kind = KindLiteral.commit THEN parse_commit(h.data)
         ELSE IF h.kind = KindLiteral.tree THEN parse_tree(h.data)
         ELSE IF h.kind = KindLiteral.tag THEN parse_tag(h.data)
         ELSE None, LAMBDA o :
    IF o.st # "some" THEN o
    ELSE [id |-> id, size |-> h.size] @@ o))

\* File::open of .git/objects/xx/yyyy.. for the id, then the decoding.
get_loose_object(id) ==
    IF \E i \in 1..Len(loose) : loose[i].id = id
    THEN parse_loose(id, loose[CHOOSE i \in 1..Len(loose) : loose[i].id = id].z)
    ELSE None

\* ------------------------------------------------------------------------
\* The visitors (store/util.rs)
\* ------------------------------------------------------------------------

\* The elements of a finite set in some order.
RECURSIVE SetToSeq(_)
SetToSeq(S) ==
    IF S = {} THEN <<>>
    ELSE LET x == CHOOSE x \in S : TRUE
         IN  <<x>> \o SetToSeq(S \ {x})

\* visit_loose_ids(Some(first_byte), ..): the ids of the files of the one
\* directory named by the first byte, in read_dir order.
visit_loose_ids(first_byte) ==
    LET InDir(f) == f.id[1] = first_byte
        files == SelectSeq(loose, InDir)
    IN  [i \in 1..Len(files) |-> files[i].id]

\* The descriptors one index contributes: the keys of its locations.
PackDescs(pack) ==
    LET oids == SetToSeq(DOMAIN pack.locations)
    IN  [i \in 1..Len(oids) |-> [oid |-> oids[i], pack_name |-> pack.name]]

\* visit_pack_ids: every id of every index, index after index in read_dir
\* order.
RECURSIVE visit_pack_ids_from(_)
visit_pack_ids_from(ps) ==
    IF ps = <<>> THEN <<>>
    ELSE PackDescs(ps[1]) \o visit_pack_ids_from(Tail(ps))

visit_pack_ids == visit_pack_ids_from(packs)

\* The value a variable holds after a visit whose callback assigns
\* values[i] to it at every visited element i with hits[i]: the value at
\* the last hit, the initial one when there is none.
AssignedAtHits(hits, values, initial) ==
    IF \A i \in 1..Len(hits) : ~hits[i] THEN initial
    ELSE values[CHOOSE i \in 1..Len(hits) :
                    hits[i] /\ \A j \in (i + 1)..Len(hits) : ~hits[j]]

\* find_backend: the loose visit, then the pack visit, each assigning
\* `backend` when it meets the id.
find_backend(id) ==
    Bind(visit_loose_ids(id[1]), LAMBDA oids :
    Bind(visit_pack_ids, LAMBDA descs :
    Bind(AssignedAtHits([i \in 1..Len(oids) |-> oids[i] = id],
                        [i \in 1..Len(oids) |-> "Loose"], "None"),
         LAMBDA after_loose :
    AssignedAtHits([i \in 1..Len(descs) |-> descs[i].oid = id],
                   [i \in 1..Len(descs) |-> "Packed"], after_loose))))

\* ------------------------------------------------------------------------
\* The pack index (store/pack.rs, parse_pack_idx)
\*
\* An index file is its sequence of bytes, read from position pos (the
\* number of bytes before the cursor).  A pack offset is kept as the eight
\* bytes of its u64, most significant first: `offset as usize` of a u32
\* puts four zero bytes in front.
\* ------------------------------------------------------------------------

\* 0xff744f63 as read_u32::<BigEndian> meets it in the file.
PACK_IDX_MAGIC == <<255, 116, 79, 99>>

\* read_exact of n bytes at pos: an error at the end of the file.
ReadBytes(file, pos, n) ==
    IF pos + n > Len(file) THEN None
    ELSE [st |-> "some", bytes |-> SubSeq(file, pos + 1, pos + n)]

\* The number in big-endian bytes, for the numbers below 2^31.
RECURSIVE BigEndian(_)
BigEndian(bytes) ==
    IF bytes = <<>> THEN 0
    ELSE BigEndian(Take(bytes, Len(bytes) - 1)) * 256 + bytes[Len(bytes)]

\* oid_entry_count as the loops use it.  A count of 2^31 or more stands
\* for more entries than the file has bytes: the loop over the entries
\* reaches the end of the file whichever of these counts it has.
EntryCount(word, file) ==
    IF word[1] >= 128 THEN Len(file) ELSE BigEndian(word)

\* u32 as usize
Widen(word) == <<0, 0, 0, 0>> \o word

\* HashMap::insert: a later value for the same key replaces the earlier.
Insert(map, key, value) == (key :> value) @@ map

\* for _ in 0..oid_entry_count { offset; oid; locations.insert }
RECURSIVE legacy_loop(_, _, _, _)
legacy_loop(file, pos, remaining, locations) ==
    IF remaining = 0 THEN [st |-> "some", locations |-> locations]
    ELSE
    Bind(ReadBytes(file, pos, 4), LAMBDA offset :
    IF offset.st # "some" THEN None
    ELSE
    Bind(ReadBytes(file, pos + 4, 20), LAMBDA oid :
    IF oid.st # "some" THEN None
    ELSE legacy_loop(file, pos + 24, remaining - 1,
                     Insert(locations, oid.bytes, Widen(offset.bytes)))))

\* Pack idx v1 if it skipped the 255 words that v2 skips.
parse_pack_idx_legacy_as_v2(file, pos) ==
    Bind(ReadBytes(file, pos + 255 * 4, 4), LAMBDA oid_entry_count :
    IF oid_entry_count.st # "some" THEN None
    ELSE legacy_loop(file, pos + 255 * 4 + 4,
                     EntryCount(oid_entry_count.bytes, file), <<>>))

\* Pack idx v1, entered with the first word read.
parse_pack_idx_legacy(file, pos) ==
    Bind(ReadBytes(file, pos + 254 * 4, 4), LAMBDA oid_entry_count :
    IF oid_entry_count.st # "some" THEN None
    ELSE legacy_loop(file, pos + 254 * 4 + 4,
                     EntryCount(oid_entry_count.bytes, file), <<>>))

\* The table of object names.
RECURSIVE oids_loop(_, _, _, _)
oids_loop(file, pos, remaining, oids) ==
    IF remaining = 0 THEN [st |-> "some", oids |-> oids, pos |-> pos]
    ELSE
    Bind(ReadBytes(file, pos, 20), LAMBDA oid :
    IF oid.st # "some" THEN None
    ELSE oids_loop(file, pos + 20, remaining - 1, Append(oids, oid.bytes)))

\* The table of 4-byte offsets: an offset with the MSB set is deferred,
\* keyed by the index its other 31 bits give.
RECURSIVE offsets_loop(_, _, _, _, _, _)
offsets_loop(file, pos, oids, table_index, locations, offsets_to_patch) ==
    IF table_index = Len(oids)
    THEN [st |-> "some", pos |-> pos, locations |-> locations,
          offsets_to_patch |-> offsets_to_patch]
    ELSE
    Bind(ReadBytes(file, pos, 4), LAMBDA offset :
    IF offset.st # "some" THEN None
    ELSE IF offset.bytes[1] >= 128
    THEN offsets_loop(file, pos + 4, oids, table_index + 1, locations,
             Insert(offsets_to_patch,
                    BigEndian(<<offset.bytes[1] % 128>>
                              \o Tail(offset.bytes)),
                    At(oids, table_index)))
    ELSE offsets_loop(file, pos + 4, oids, table_index + 1,
             Insert(locations, At(oids, table_index), Widen(offset.bytes)),
             offsets_to_patch))

\* patchable_indices.sort()
RECURSIVE Sorted(_)
Sorted(S) ==
    IF S = {} THEN <<>>
    ELSE LET least == CHOOSE x \in S : \A y \in S : x <= y
         IN  <<least>> \o Sorted(S \ {least})

\* The table of 8-byte offsets: for each deferred index, lowest first,
\* entries are consumed while the index differs from curr_table_idx, which
\* counts the entries consumed that way, and the next entry is the offset.
RECURSIVE patch_loop(_, _, _, _, _, _)
patch_loop(file, pos, patchable_indices, curr_table_idx, offsets_to_patch, locations) ==
    IF patchable_indices = <<>>
    THEN [st |-> "some", locations |-> locations]
    ELSE
    Bind(Head(patchable_indices) - curr_table_idx, LAMBDA skipped :
    IF skipped > (Len(file) - pos) \div 8 THEN None
    ELSE
    Bind(ReadBytes(file, pos + 8 * skipped, 8), LAMBDA offset :
    IF offset.st # "some" THEN None
    ELSE patch_loop(file, pos + 8 * skipped + 8, Tail(patchable_indices),
                    Head(patchable_indices), offsets_to_patch,
                    Insert(locations,
                           offsets_to_patch[Head(patchable_indices)],
                           offset.bytes))))

\* Pack idx v2, entered with the magic and the version read.
parse_pack_idx_v2(file, pos) ==
    Bind(ReadBytes(file, pos + 255 * 4, 4), LAMBDA oid_entry_count :
    IF oid_entry_count.st # "some" THEN None
    ELSE
    Bind(oids_loop(file, pos + 255 * 4 + 4,
                   EntryCount(oid_entry_count.bytes, file), <<>>),
         LAMBDA names :
    IF names.st # "some" THEN None
    ELSE
    Bind(offsets_loop(file, names.pos + 4 * Len(names.oids), names.oids, 0,
                      <<>>, <<>>), LAMBDA offsets :
    IF offsets.st # "some" THEN None
    ELSE patch_loop(file, offsets.pos,
                    Sorted(DOMAIN offsets.offsets_to_patch), 0,
                    offsets.offsets_to_patch, offsets.locations))))

parse_pack_idx_modern(file, pos) ==
    Bind(ReadBytes(file, pos, 4), LAMBDA version_number :
    IF version_number.st # "some" THEN None
    ELSE IF version_number.bytes = <<0, 0, 0, 2>>
    THEN parse_pack_idx_v2(file, pos + 4)
    ELSE None)

parse_pack_idx(file) ==
    Bind(ReadBytes(file, 0, 4), LAMBDA first_word :
    IF first_word.st # "some" THEN None
    ELSE IF first_word.bytes = PACK_IDX_MAGIC
    THEN parse_pack_idx_modern(file, 4)
    ELSE parse_pack_idx_legacy(file, 4))

\* ------------------------------------------------------------------------
\* The pack backend (store/pack.rs)
\* ------------------------------------------------------------------------

PackMagic == <<80, 65, 67, 75>>

parse_packed_object_and_size(objs, start_offset) ==
    IF start_offset \notin DOMAIN objs THEN None
    ELSE
    Bind(objs[start_offset], LAMBDA e :
    Bind(read_kind_length_obj_header(e.pre, build), LAMBDA h :
    IF h.st # "some" THEN h
    ELSE IF h.kind \in {6, 7}
    THEN Bind(resolve_delta(objs, start_offset, build), LAMBDA r :
         IF r.st # "some" THEN r
         ELSE Bind(parse_object(r.kind, r.data), LAMBDA o :
              IF o.st # "some" THEN o
              ELSE [size |-> AsInt(h.length)] @@ o))
    ELSE IF h.used # Len(e.pre) THEN None
    ELSE Bind(read_exact(e.z, AsInt(h.length)), LAMBDA d :
         IF d.st # "some" THEN None
         ELSE Bind(parse_object(h.kind, d.data), LAMBDA o :
              IF o.st # "some" THEN o
              ELSE [size |-> AsInt(h.length)] @@ o))))

\* The pack whose name the visit of get_packed_object leaves in pack_name.
pack_named(name) == packs[CHOOSE i \in 1..Len(packs) : packs[i].name = name]

\* get_packed_object.  The field pack of the outcome is the name of the
\* pack file that was opened and read; GitObject does not carry it.
get_packed_object(id) ==
    Bind(visit_pack_ids, LAMBDA descs :
    Bind(AssignedAtHits([i \in 1..Len(descs) |-> descs[i].oid = id],
                        [i \in 1..Len(descs) |-> descs[i].pack_name], ""),
         LAMBDA pack_name :
        IF pack_name = "" THEN None
        ELSE
        Bind(pack_named(pack_name), LAMBDA pack :
        IF id \notin DOMAIN pack.locations THEN None
        ELSE IF pack.magic # PackMagic THEN None
        ELSE Bind(parse_packed_object_and_size(pack.objs, pack.locations[id]),
                  LAMBDA r :
             IF r.st # "some" THEN r
             ELSE [id |-> id, pack |-> pack_name] @@ r))))

\* ------------------------------------------------------------------------
\* The facade (store/mod.rs)
\* ------------------------------------------------------------------------

get(id) ==
    LET backend == find_backend(id)
    IN  IF backend = "None" THEN None
        ELSE IF backend = "Loose" THEN get_loose_object(id)
        ELSE get_packed_object(id)

\* ------------------------------------------------------------------------
\* Identifier resolution (store/util.rs)
\* ------------------------------------------------------------------------

\* The candidates pushed by the two visits for the decoded prefix.
candidates_of(id_bytes) ==
    LET Match(oid) == starts_with(oid, id_bytes)
        descs == visit_pack_ids
        packed == [i \in 1..Len(descs) |-> descs[i].oid]
    IN  SelectSeq(visit_loose_ids(id_bytes[1]), Match) \o SelectSeq(packed, Match)

\* [st |-> "some", id |-> ..] or [st |-> "none", candidates |-> ..], the
\* candidates being what the Ambiguous branch prints.
RECURSIVE resolve_id(_)
resolve_id(id_str) ==
    LET id_len == Len(id_str)
        nothing == [st |-> "none", candidates |-> <<>>]
    IN  IF id_len < MIN_USER_HASH_LEN \/ id_len > SHA1_HASH_SIZE * 2
        THEN nothing
        ELSE
        LET decoded == hex_decode(id_str)
        IN  IF decoded.err = "OddLength"
            THEN resolve_id(Take(id_str, id_len - 1))
            ELSE IF decoded.err # "" THEN nothing
            ELSE
            LET candidates == candidates_of(decoded.bytes)
            IN  IF Len(candidates) = 0 THEN nothing
                ELSE IF Len(candidates) > 1
                THEN [st |-> "none", candidates |-> candidates]
                ELSE [st |-> "some", id |-> candidates[1],
                      candidates |-> candidates]

\* ------------------------------------------------------------------------
\* The cat-file command (main.rs, with the store of object.rs)
\* ------------------------------------------------------------------------

\* hash_from_str: the files of the directory named by the first two
\* characters whose names start with the remaining characters.
hash_from_str(id_str) ==
    LET id_len == Len(id_str)
    IN  IF id_len < MIN_USER_HASH_LEN \/ id_len > 40 THEN None
        ELSE
        LET InDir(f) == Take(hex_encode(f.id), 2) = Take(id_str, 2)
            dir == SelectSeq(loose, InDir)
            Named(f) == starts_with(Drop(hex_encode(f.id), 2), Drop(id_str, 2))
            matches == SelectSeq(dir, Named)
        IN  IF Len(dir) = 0 THEN None
            ELSE IF Len(matches) = 0 THEN None
            ELSE IF Len(matches) > 1 THEN None
            ELSE
            LET decoded == hex_decode(Take(id_str, 2)
                                      \o Drop(hex_encode(matches[1].id), 2))
            IN  IF decoded.err # "" \/ Len(decoded.bytes) # SHA1_HASH_SIZE
                THEN None
                ELSE [st |-> "some", id |-> decoded.bytes]

\* object.rs GitObjectStore::get: the loose file of the id, nothing else.
\* Of the parsers of object.rs only parse_blob is modelled.
object_get(id) ==
    IF \E i \in 1..Len(loose) : loose[i].id = id
    THEN Bind(loose_header(loose[CHOOSE i \in 1..Len(loose) :
                                    loose[i].id = id].z), LAMBDA h :
         IF h.st # "some" THEN None
         ELSE IF h.kind = BlobLiteral
         THEN [st |-> "some", id |-> id, size |-> h.size,
               kind |-> "blob", data |-> h.data]
         ELSE IF h.kind \in KindLiterals THEN Unmodelled
         ELSE None)
    ELSE None

\* Display for GitObject, the Blob arm.
display(obj) == from_utf8_lossy(obj.data)

\* The bytes of a type label.
type_string(obj) == IF obj.kind = "blob" THEN BlobLiteral ELSE <<>>

\* main: the exit code and what was printed.  mode is "p" or "t".
main(id_str, mode) ==
    LET id == hash_from_str(id_str)
    IN  IF id.st # "some" THEN [exit |-> 1, stdout |-> <<>>]
        ELSE
        LET obj == object_get(id.id)
        IN  IF obj.st # "some" THEN [exit |-> 1, stdout |-> <<>>]
            ELSE IF mode = "p" THEN [exit |-> 0, stdout |-> display(obj)]
            ELSE [exit |-> 0, stdout |-> type_string(obj) \o <<10>>]

\* ------------------------------------------------------------------------
\* The stored data.  The files are written by git, not by this program;
\* the writers below produce the formats the readers above decode.
\* ------------------------------------------------------------------------

\* One byte per run: the stream of an incompressible byte string.
Deflate(bytes) == [i \in 1..Len(bytes) |-> <<1, bytes[i]>>]

\* ASCII decimal digits of n.
RECURSIVE Decimal(_)
Decimal(n) ==
    IF n < 10 THEN <<48 + n>>
    ELSE Decimal(n \div 10) \o <<48 + (n % 10)>>

\* LSB-first groups of 7 bits, MSB set on all but the last.
RECURSIVE EncodeSize(_)
EncodeSize(n) ==
    IF n < 128 THEN <<n>>
    ELSE <<128 + (n % 128)>> \o EncodeSize(n \div 128)

\* Packed-object header for a type and a length.
EncodeHeader(kind, length) ==
    IF length < 16 THEN <<kind * 16 + length>>
    ELSE <<128 + kind * 16 + (length % 16)>> \o EncodeSize(length \div 16)

\* git's encoding of a negative relative offset, most significant group
\* first.
RECURSIVE EncodeOfsHigh(_)
EncodeOfsHigh(n) ==
    IF n = 0 THEN <<>>
    ELSE EncodeOfsHigh((n - 1) \div 128) \o <<128 + ((n - 1) % 128)>>

EncodeOfs(n) == EncodeOfsHigh(n \div 128) \o <<n % 128>>

\* Delta operations as the writer thinks of them.
Copy(offset, size) == [t |-> "copy", offset |-> offset, size |-> size]

Ins(bytes) == [t |-> "insert", bytes |-> bytes]

\* The bytes of number n (below 2^(8*count)) that are not zero, least
\* significant first, with the presence bits they set from bit `first`.
NonZeroBytes(n, count, first) ==
    LET byte(i) == (n \div Pow2(8 * i)) % 256
        present == {i \in 0..(count - 1) : byte(i) # 0}
        order == [i \in 0..(count - 1) |->
                     IF i \in present THEN <<byte(i)>> ELSE <<>>]
        RECURSIVE cat(_)
        cat(i) == IF i >= count THEN <<>> ELSE order[i] \o cat(i + 1)
        RECURSIVE mask(_)
        mask(i) == IF i >= count THEN 0
                   ELSE (IF i \in present THEN Pow2(first + i) ELSE 0)
                        + mask(i + 1)
    IN  [bytes |-> cat(0), bits |-> mask(0)]

\* git writes the bytes of the offset and of the size that are not zero;
\* its longest copy, of 0x10000 bytes, has no size byte at all.
EncodeOp(o) ==
    IF o.t = "insert" THEN <<Len(o.bytes)>> \o o.bytes
    ELSE LET off == NonZeroBytes(o.offset, 4, 0)
             sz == NonZeroBytes(o.size % 65536, 3, 4)
         IN  <<128 + off.bits + sz.bits>> \o off.bytes \o sz.bytes

RECURSIVE EncodeOps(_)
EncodeOps(ops) ==
    IF ops = <<>> THEN <<>>
    ELSE EncodeOp(ops[1]) \o EncodeOps(Tail(ops))

\* What a list of delta operations means: the bytes the writer deltified.
RECURSIVE RefApply(_, _)
RefApply(base, ops) ==
    IF ops = <<>> THEN <<>>
    ELSE (IF ops[1].t = "insert" THEN ops[1].bytes
          ELSE Slice(base, ops[1].offset, ops[1].offset + ops[1].size))
         \o RefApply(base, Tail(ops))

\* Copies of n bytes from offset off, none longer than git's 0x10000.
RECURSIVE CopyRange(_, _)
CopyRange(off, n) ==
    IF n = 0 THEN <<>>
    ELSE IF n <= 65536 THEN <<Copy(off, n)>>
    ELSE <<Copy(off, 65536)>> \o CopyRange(off + 65536, n - 65536)

\* ------------------------------------------------------------------------
\* The worlds of the model: what is stored.  One pack holds a base blob
\* and a chain of offset-deltas on it, object i of the chain (0 the base)
\* being the delta of object i-1; its objects may also exist loose, and the
\* pack may exist twice.
\* ------------------------------------------------------------------------

\* An id: three leading bytes, zeros after.
MkId(head) == head \o Rep(SHA1_HASH_SIZE - Len(head), 0)

NumIds == MaxChain + 1

\* abcde1.., abcde7.., abcdf2.., then 1234xx..: the first two share five
\* hex digits, the first three share four.
IdOf(i) ==
    IF i = 1 THEN MkId(<<171, 205, 225>>)
    ELSE IF i = 2 THEN MkId(<<171, 205, 231>>)
    ELSE IF i = 3 THEN MkId(<<171, 205, 242>>)
    ELSE MkId(<<18, 52, i>>)

\* An id no world stores.
AbsentId == MkId(<<171, 205, 224>>)

\* The compressed base blobs: two bytes, and 0x10000 + 1 bytes.
Bases == << <<<<1, 97>>, <<1, 255>>>>, <<<<65536, 97>>, <<1, 98>>>> >>

\* The ways the writer deltifies an object of n bytes.
Styles == 1..(2 + MaxInsert)

StyleOps(style, n) ==
    IF style = 1 THEN CopyRange(0, n)
    ELSE IF style = 2 THEN <<Ins(<<99>>)>> \o CopyRange(0, n)
    ELSE CopyRange(0, IF n = 0 THEN 0 ELSE 1) \o <<Ins(Rep(style - 2, 98))>>

\* The bytes of object i of the chain of world w.
RECURSIVE ChainContent(_, _)
ChainContent(w, i) ==
    IF i = 0 THEN Inflate(Bases[w.base])
    ELSE LET prev == ChainContent(w, i - 1)
         IN  RefApply(prev, StyleOps(w.styles[i], Len(prev)))

\* Where object i starts in the pack file: after the 12 bytes of the pack
\* header, 300 bytes apart.
Off(i) == 12 + 300 * i

\* The bytes of a delta payload.
DeltaPayload(base_size, result_size, instructions) ==
    EncodeSize(base_size) \o EncodeSize(result_size) \o instructions

\* Whether the writer stores object i as a reference-delta (type 7, the
\* base named by its id) instead of an offset-delta.
IsRefDelta(w, i) ==
    \/ i = Len(w.styles) /\ w.fault = "ref_tip"
    \/ i = Len(w.styles) - 1 /\ i >= 1 /\ w.fault = "ref_link"

\* The base-size the delta i declares: the length of its base, or, in the
\* delta next to the base of a faulty pack, one byte less or more.
DeclaredBaseSize(w, i) ==
    Len(ChainContent(w, i - 1))
    + (IF i = 1 /\ w.fault = "bs_less" THEN -1
       ELSE IF i = 1 /\ w.fault = "bs_more" THEN 1
       ELSE 0)

\* Object i of the pack of world w as the writer stores it.
ChainEntry(w, i) ==
    IF i = 0
    THEN [pre |-> EncodeHeader(3, Len(ChainContent(w, 0))), z |-> Bases[w.base]]
    ELSE
    LET prev == ChainContent(w, i - 1)
        ops == StyleOps(w.styles[i], Len(prev))
        tip == i = Len(w.styles)
        payload ==
            IF tip /\ w.fault = "raw"
            THEN DeltaPayload(Len(prev), w.raw.rs, w.raw.instr)
            ELSE DeltaPayload(DeclaredBaseSize(w, i), Len(RefApply(prev, ops)),
                              EncodeOps(ops))
        isref == IsRefDelta(w, i)
        negofs == IF tip /\ w.fault = "ofs_big" THEN Off(i) + 1
                  ELSE IF tip /\ w.fault = "ofs_zero" THEN 0
                  ELSE Off(i) - Off(i - 1)
    IN  [pre |-> IF isref
                 THEN EncodeHeader(7, Len(payload)) \o IdOf(i)
                 ELSE EncodeHeader(6, Len(payload)) \o EncodeOfs(negofs),
         z |-> Deflate(payload)]

PackOf(w, name) ==
    [name |-> name,
     locations |-> [id \in {IdOf(i + 1) : i \in 0..Len(w.styles)} |->
                       Off((CHOOSE i \in 0..Len(w.styles) : IdOf(i + 1) = id))],
     magic |-> PackMagic,
     objs |-> [o \in {Off(i) : i \in 0..Len(w.styles)} |->
                  ChainEntry(w, (CHOOSE i \in 0..Len(w.styles) : Off(i) = o))]]

PacksOf(w) ==
    IF w.copies = 0 THEN <<>>
    ELSE IF w.copies = 1 THEN <<PackOf(w, "pack-1")>>
    ELSE <<PackOf(w, "pack-1"), PackOf(w, "pack-2")>>

\* The bytes of the blob with id number i: the chain's object when the
\* chain has one, one byte otherwise.
BlobContent(w, i) ==
    IF i <= Len(w.styles) + 1 THEN ChainContent(w, i - 1) ELSE <<100>>

\* The loose file of a blob.
LooseFile(content) ==
    Deflate(BlobLiteral \o <<32>> \o Decimal(Len(content)) \o <<0>> \o content)

LooseOf(w) ==
    LET ids == SetToSeq(w.looseSet)
    IN  [n \in 1..Len(ids) |->
            [id |-> IdOf(ids[n]), z |-> LooseFile(BlobContent(w, ids[n]))]]

\* Sequences over S of length at most n.
RECURSIVE SeqsUpTo(_, _)
SeqsUpTo(S, n) ==
    IF n = 0 THEN {<<>>}
    ELSE LET shorter == SeqsUpTo(S, n - 1)
         IN  shorter \cup {Append(s, x) : s \in {t \in shorter : Len(t) = n - 1},
                                          x \in S}

NoRaw == [instr |-> <<>>, rs |-> 0]

World(base, styles, fault, raw, looseSet, copies) ==
    [base |-> base, styles |-> styles, fault |-> fault, raw |-> raw,
     looseSet |-> looseSet, copies |-> copies]

\* Well-formed chains of at most one delta on the small base, each object
\* loose or not, the pack absent, present or present twice.
WorldsBackends ==
    {World(1, styles, "none", NoRaw, looseSet, copies) :
        styles \in SeqsUpTo({1}, 1),
        looseSet \in SUBSET (1..NumIds),
        copies \in 0..2}

\* Well-formed chains of every depth and style, in one pack; the big base
\* with at most one delta.
WorldsChains ==
    {World(1, styles, "none", NoRaw, {}, 1) :
        styles \in SeqsUpTo(Styles, MaxChain)}
    \cup {World(2, styles, "none", NoRaw, {}, 1) :
            styles \in SeqsUpTo(Styles, 1)}

\* A chain with a reference-delta, or with a negative offset that leads
\* before the file or nowhere.
WorldsFaults ==
    {w \in {World(1, styles, fault, NoRaw, {}, 1) :
                styles \in {<<1>>, <<1, 1>>},
                fault \in {"ref_tip", "ref_link", "ofs_big", "ofs_zero"}} :
        w.fault = "ref_link" => Len(w.styles) = 2}

\* A chain whose delta next to the base declares a base-size that is not
\* the length of the base.
WorldsBaseSize ==
    {World(1, styles, fault, NoRaw, {}, 1) :
        styles \in {<<1>>, <<3>>, <<3, 1>>},
        fault \in {"bs_less", "bs_more"}}

\* The bytes an arbitrary instruction block is made of: insert commands
\* (0 to 2 bytes), a literal, copy commands without operand, with a size
\* byte, with an offset and a size byte.
InstrBytes == {0, 1, 2, 97, 128, 144, 145}

\* One delta on the small base whose instruction block is arbitrary.
WorldsRaw ==
    {World(1, <<1>>, "raw", [instr |-> instr, rs |-> rs], {}, 1) :
        instr \in SeqsUpTo(InstrBytes, MaxInstr),
        rs \in 0..MaxResult}


\* Instruction blocks on the large base with the result-size they come
\* with: copies whose size bytes are absent or zero, copies that use each of
\* the seven operand bytes, blocks of several instructions and the longest
\* insert.
BigBlocks ==
    { <<<<128>>, 65536>>, <<<<144, 0>>, 65536>>, <<<<129, 1>>, 65536>>,
      <<<<176, 0, 0>>, 65536>>, <<<<128, 1, 98>>, 65537>>,
      <<<<148, 1, 1>>, 1>>, <<<<151, 0, 0, 1, 1>>, 1>>,
      <<<<154, 1, 0, 2>>, 2>>, <<<<160, 1>>, 256>>,
      <<<<179, 2, 1, 1, 1>>, 257>>, <<<<192, 1>>, 65536>>,
      <<<<193, 1, 1>>, 65536>>, <<<<1, 99, 162, 1, 1, 1, 100>>, 258>>,
      <<<<144, 1, 1, 98>>, 2>>, <<<<145, 1, 1, 144, 1>>, 2>>,
      <<<<255, 1, 0, 0, 0, 2, 0, 0>>, 2>>, <<<<3, 1, 2, 3>>, 3>>,
      <<<<127>> \o Rep(127, 97), 127>> }

\* One delta on the large base whose instruction block is one of these.
WorldsBig ==
    {World(2, <<1>>, "raw", [instr |-> b[1], rs |-> b[2]], {}, 1) :
        b \in BigBlocks}

\* ------------------------------------------------------------------------
\* Inputs
\* ------------------------------------------------------------------------

Hex(i) == hex_encode(IdOf(i))

Upper(s) == [i \in 1..Len(s) |-> UpperDigits[HexVal(s[i]) + 1]]

\* Prefixes of the stored ids and of an absent one, too short, of even and
\* odd length and full; the same followed by a character that is no hex
\* digit, or by one digit too many; in upper case.
InputStrings ==
    {Take(Hex(i), n) : i \in 1..NumIds, n \in {3, 4, 5, 6, 7, 40}}
    \cup {Take(Hex(i), n) \o <<"g">> : i \in 1..NumIds, n \in {3, 4, 5}}
    \cup {Hex(i) \o <<"0">> : i \in 1..NumIds}
    \cup {Upper(Take(Hex(i), 6)) : i \in 1..NumIds}
    \cup {Take(hex_encode(AbsentId), n) : n \in {6, 40}}

\* The ids asked for: the stored ones and an absent one.
InputIds == {IdOf(i) : i \in 1..NumIds} \cup {AbsentId}

\* ------------------------------------------------------------------------
\* The state machine.  One behaviour is one run of the program: the store
\* as it is found, then one operation.
\* ------------------------------------------------------------------------

Builds == {"debug", "release"}

InitWith(worlds) ==
    /\ world \in worlds
    /\ build \in Builds
    /\ loose = LooseOf(world)
    /\ packs = PacksOf(world)
    /\ op = "init"
    /\ arg = <<>>
    /\ res = None

Init ==
    InitWith(WorldsBackends \cup WorldsChains \cup WorldsFaults
             \cup WorldsBaseSize)

ResolveId(id_str) ==
    /\ op = "init"
    /\ op' = "resolve_id"
    /\ arg' = id_str
    /\ res' = resolve_id(id_str)
    /\ UNCHANGED <<loose, packs, build, world>>

FindBackend(id) ==
    /\ op = "init"
    /\ op' = "find_backend"
    /\ arg' = id
    /\ res' = [backend |-> find_backend(id)]
    /\ UNCHANGED <<loose, packs, build, world>>

Get(id) ==
    /\ op = "init"
    /\ op' = "get"
    /\ arg' = id
    /\ res' = get(id)
    /\ UNCHANGED <<loose, packs, build, world>>

CatFile(id_str, mode) ==
    /\ op = "init"
    /\ op' = "cat-file"
    /\ arg' = [id |-> id_str, mode |-> mode]
    /\ res' = main(id_str, mode)
    /\ UNCHANGED <<loose, packs, build, world>>

Next ==
    \/ \E id_str \in InputStrings : ResolveId(id_str)
    \/ \E id \in InputIds : FindBackend(id)
    \/ \E id \in InputIds : Get(id)
    \/ \E id_str \in InputStrings, mode \in {"p", "t"} : CatFile(id_str, mode)

Spec == Init /\ [][Next]_vars

\* The runs on a delta whose instruction block is arbitrary, or whose
\* negative offset leads before the start of the file.
InitRaw ==
    InitWith(WorldsRaw \cup WorldsBig
             \cup {w \in WorldsFaults : w.fault = "ofs_big"})

\* apply_delta on its own: the base of the store, a zeroed destination of
\* the declared result-size and the instruction block of the store's delta.
ApplyDelta ==
    /\ op = "init"
    /\ world.fault = "raw"
    /\ op' = "apply_delta"
    /\ arg' = [base |-> world.base, result_size |-> world.raw.rs,
               instructions |-> world.raw.instr]
    /\ res' = apply_delta(ChainContent(world, 0), Rep(world.raw.rs, 0),
                          world.raw.instr)
    /\ UNCHANGED <<loose, packs, build, world>>

NextRaw ==
    \/ \E id \in InputIds : Get(id)
    \/ ApplyDelta

SpecRaw == InitRaw /\ [][NextRaw]_vars

\* The runs of one varint reader on a byte stream: every byte string of up
\* to MaxBytes bytes over VarintBytes, and the long encodings, up to
\* MaxCont equal continuation bytes and a last byte, alone or followed by
\* a further byte.
VarintBytes == {0, 1, 53, 127, 128, 129, 181, 255}

VarintStreams ==
    SeqsUpTo(VarintBytes, MaxBytes)
    \cup {Rep(k, c) \o <<last>> \o rest :
             k \in 0..MaxCont, c \in {128, 129, 255},
             last \in {0, 1, 2, 127}, rest \in {<<>>, <<129>>}}

InitVarint == InitWith({World(1, <<>>, "none", NoRaw, {}, 1)})

ReadHeader(s) ==
    /\ op = "init"
    /\ op' = "read_kind_length_obj_header"
    /\ arg' = s
    /\ res' = read_kind_length_obj_header(s, build)
    /\ UNCHANGED <<loose, packs, build, world>>

SizeDecode(s) ==
    /\ op = "init"
    /\ op' = "size_decode"
    /\ arg' = s
    /\ res' = size_decode(s, build)
    /\ UNCHANGED <<loose, packs, build, world>>

ReadNegativeOffset(s) ==
    /\ op = "init"
    /\ op' = "read_negative_relative_offset"
    /\ arg' = s
    /\ res' = read_negative_relative_offset(s, build)
    /\ UNCHANGED <<loose, packs, build, world>>

NextVarint ==
    \/ \E s \in VarintStreams : ReadHeader(s)
    \/ \E s \in VarintStreams : SizeDecode(s)
    \/ \E s \in VarintStreams : ReadNegativeOffset(s)

SpecVarint == InitVarint /\ [][NextVarint]_vars

\* ------------------------------------------------------------------------
\* Index files.  A file is written from a description: its version, its
\* ids in the order of the name table, for each id whether its offset is
\* large (then k is its index in the table of 8-byte offsets) and how
\* many bytes are missing at the end.
\* ------------------------------------------------------------------------

\* The ids of an index, in ascending order, first bytes 0x00, 0x10, ...
IdxId(i) == MkId(<<16 * (i - 1), 52, i>>)

\* A number below 2^31 in four big-endian bytes.
BE4(n) ==
    <<n \div Pow2(24), (n \div Pow2(16)) % 256, (n \div 256) % 256, n % 256>>

RECURSIVE Flatten(_)
Flatten(seqs) ==
    IF seqs = <<>> THEN <<>> ELSE seqs[1] \o Flatten(Tail(seqs))

\* The fan-out table: word b counts the ids whose first byte is at most b.
Fanout(n) ==
    [p \in 1..(256 * 4) |->
        BE4(Cardinality({i \in 1..n : IdxId(i)[1] <= (p - 1) \div 4}))
            [((p - 1) % 4) + 1]]

\* The small offset stored for id i, and entry k of the 8-byte table.
Direct4(i) == BE4(Off(i - 1))

Large8(k) == <<0, 0, 0, 1, 0, 0, 0, k>>

\* The 8-byte table reaches up to the highest index in use.
TableLen(d) ==
    IF \A i \in 1..d.n : ~d.entries[i].large THEN 0
    ELSE 1 + CHOOSE k \in 0..(MaxIdx - 1) :
                 /\ \E i \in 1..d.n : d.entries[i].large /\ d.entries[i].k = k
                 /\ \A i \in 1..d.n : d.entries[i].large => d.entries[i].k <= k

\* The two checksums that end an index file.
IdxTrailer == Rep(20, 171) \o Rep(20, 205)

IdxV2Body(d) ==
    Fanout(d.n)
    \o Flatten([i \in 1..d.n |-> IdxId(i)])
    \o Flatten([i \in 1..d.n |-> <<222, 173, 190, i>>])
    \o Flatten([i \in 1..d.n |->
                   IF d.entries[i].large THEN <<128, 0, 0, d.entries[i].k>>
                   ELSE Direct4(i)])
    \o Flatten([j \in 1..TableLen(d) |-> Large8(j - 1)])
    \o IdxTrailer

\* A v1 offset is any u32: a large one has its MSB set.
V1Offset(d, i) ==
    IF d.entries[i].large THEN <<128, 0, 0, i>> ELSE Direct4(i)

IdxV1Body(d) ==
    Fanout(d.n)
    \o Flatten([i \in 1..d.n |-> V1Offset(d, i) \o IdxId(i)])
    \o IdxTrailer

IdxFile(d) ==
    Bind(IF d.version = 1 THEN IdxV1Body(d)
         ELSE PACK_IDX_MAGIC \o <<0, 0, 0, d.version>> \o IdxV2Body(d),
         LAMBDA whole : Take(whole, Len(whole) - d.cut))

IdxDescs ==
    {[version |-> 2, n |-> Len(e), entries |-> e, cut |-> cut] :
        e \in SeqsUpTo({[large |-> FALSE, k |-> 0]}
                       \cup {[large |-> TRUE, k |-> k] :
                                k \in 0..(MaxIdx - 1)}, MaxIdx),
        cut \in {0, 44}}
    \cup {[version |-> 1, n |-> Len(e), entries |-> e, cut |-> cut] :
        e \in SeqsUpTo({[large |-> FALSE, k |-> 0], [large |-> TRUE, k |-> 0]},
                       MaxIdx),
        cut \in {0, 44}}
    \cup {[version |-> v, n |-> 1, entries |-> <<[large |-> FALSE, k |-> 0]>>,
           cut |-> 0] : v \in {0, 1, 3}}

ParsePackIdx(d) ==
    /\ op = "init"
    /\ op' = "parse_pack_idx"
    /\ arg' = d
    /\ res' = parse_pack_idx(IdxFile(d))
    /\ UNCHANGED <<loose, packs, build, world>>

NextIdx == \E d \in IdxDescs : ParsePackIdx(d)

SpecIdx == InitVarint /\ [][NextIdx]_vars

\* ------------------------------------------------------------------------
\* The runs on commits, trees and tags.  The object read is a loose file
\* written from a description; next to it the store holds a packed blob,
\* and a tree, a commit and a tag as loose files.
\* ------------------------------------------------------------------------

MaxEntries == 2

MaxParents == 2

\* The id of the object read, of the stored tree, of the stored commit, of
\* a commit that is not stored and of the stored tag.
ObjId ==
    [test |-> MkId(<<190, 239, 1>>),
     subtree |-> MkId(<<190, 239, 2>>),
     commit |-> MkId(<<202, 254, 1>>),
     other |-> MkId(<<202, 254, 2>>),
     tag |-> MkId(<<190, 239, 3>>)]

\* The ASCII hex digits of an id, in lower or upper case.
HexOf(id, upper) ==
    LET HexByte(v) == IF v < 10 THEN 48 + v
                      ELSE IF upper THEN 55 + v ELSE 87 + v
    IN  [i \in 1..(2 * Len(id)) |->
            IF i % 2 = 1 THEN HexByte(id[(i + 1) \div 2] \div 16)
                         ELSE HexByte(id[i \div 2] % 16)]

\* The ways an id is written in a header: 40 digits in lower or upper
\* case, 39 digits, 38 digits, and 40 characters one of which is g.
HexForm(id, form) ==
    IF form = "lower" THEN HexOf(id, FALSE)
    ELSE IF form = "upper" THEN HexOf(id, TRUE)
    ELSE IF form = "odd" THEN Take(HexOf(id, FALSE), 39)
    ELSE IF form = "short" THEN Take(HexOf(id, FALSE), 38)
    ELSE Take(HexOf(id, FALSE), 39) \o <<103>>

\* key SP value LF
HeaderLine(key, value) == key \o <<32>> \o value \o <<10>>

\* "A 1", "C 2" and "x": the values of author and tagger, of committer,
\* and of encoding and tag.
Values == [author |-> <<65, 32, 49>>, committer |-> <<67, 32, 50>>,
           plain |-> <<120>>]

\* The payload of a commit description: how the tree is written
\* ("absent": not at all), the parents as <<id, form>>, which headers
\* exist, the signature lines and the message.  Every line of the
\* signature after the first is written after LF SP.
CommitPayload(d) ==
    (IF d.tree = "absent" THEN <<>>
     ELSE HeaderLine(HeaderKeys.tree, HexForm(ObjId.subtree, d.tree)))
    \o Flatten([i \in 1..Len(d.parents) |->
           HeaderLine(HeaderKeys.parent,
                      HexForm(d.parents[i][1], d.parents[i][2]))])
    \o (IF d.author THEN HeaderLine(HeaderKeys.author, Values.author)
        ELSE <<>>)
    \o (IF d.committer
        THEN HeaderLine(HeaderKeys.committer, Values.committer) ELSE <<>>)
    \o (IF d.encoding THEN HeaderLine(HeaderKeys.encoding, Values.plain)
        ELSE <<>>)
    \o (IF d.gpgsig = <<>> THEN <<>>
        ELSE HeaderLine(HeaderKeys.gpgsig,
                 d.gpgsig[1]
                 \o Flatten([i \in 1..(Len(d.gpgsig) - 1) |->
                        <<10, 32>> \o d.gpgsig[i + 1]])))
    \o <<10>> \o d.message

\* The payload of a tag description.
TagPayload(d) ==
    (IF d.object = "absent" THEN <<>>
     ELSE HeaderLine(HeaderKeys.object, HexForm(ObjId.commit, d.object)))
    \o (IF d.type THEN HeaderLine(HeaderKeys.type, KindLiteral.commit)
        ELSE <<>>)
    \o (IF d.tag THEN HeaderLine(HeaderKeys.tag, Values.plain) ELSE <<>>)
    \o (IF d.tagger THEN HeaderLine(HeaderKeys.tagger, Values.author)
        ELSE <<>>)
    \o <<10>> \o d.message

\* The payload of a tree: for each entry the octal digits of the mode, SP,
\* the path, NUL and the 20 bytes of the id.
TreePayload(entries) ==
    Flatten([i \in 1..Len(entries) |->
        entries[i].digits \o <<32>> \o entries[i].path \o <<0>>
        \o entries[i].id])

\* A commit and a tag with nothing wrong and nothing optional.
Plain ==
    [commit |-> [tree |-> "lower", parents |-> <<>>, author |-> TRUE,
                 committer |-> TRUE, encoding |-> FALSE, gpgsig |-> <<>>,
                 message |-> <<>>],
     tag |-> [object |-> "lower", type |-> TRUE, tag |-> TRUE,
              tagger |-> TRUE, message |-> <<>>]]

\* A world has one description in use, named by its shape.
\*   The signatures: none, one line, and four lines of which the second is
\*   empty and the third begins with a SP of its own.
\*   The messages: empty, and one with an empty line and a byte >= 128.
\*   In a commit the encoding header goes with the longer message.
\*   The entries of a tree, with the mode and its octal digits: a file (the
\*   packed blob), a directory, a submodule, a file whose object is not
\*   stored, a file whose name is not UTF-8, and an entry for the tag.
ObjWorlds ==
    LET HexForms == {"lower", "upper", "odd", "short", "nonhex", "absent"}
        Signatures == {<<>>, <<<<115>>>>,
                       <<<<66>>, <<>>, <<32, 120>>, <<69>>>>}
        Messages == {<<>>, <<109, 10, 10, 120, 255, 10>>}
        EntryForms ==
            {[mode |-> 33188, digits |-> <<49, 48, 48, 54, 52, 52>>,
              path |-> <<97>>, id |-> IdOf(1)],
             [mode |-> 16384, digits |-> <<52, 48, 48, 48, 48>>,
              path |-> <<115, 117, 98>>, id |-> ObjId.subtree],
             [mode |-> 57344, digits |-> <<49, 54, 48, 48, 48, 48>>,
              path |-> <<109>>, id |-> ObjId.commit],
             [mode |-> 33261, digits |-> <<49, 48, 48, 55, 53, 53>>,
              path |-> <<98>>, id |-> AbsentId],
             [mode |-> 33188, digits |-> <<49, 48, 48, 54, 52, 52>>,
              path |-> <<255, 99>>, id |-> IdOf(1)],
             [mode |-> 40960, digits |-> <<49, 50, 48, 48, 48, 48>>,
              path |-> <<116>>, id |-> ObjId.tag]}
    IN  {[shape |-> "commit", tag |-> Plain.tag, tree |-> <<>>,
          commit |-> [tree |-> t, parents |-> ps, author |-> a,
                      committer |-> c, encoding |-> m # <<>>, gpgsig |-> g,
                      message |-> m]] :
            t \in HexForms,
            ps \in SeqsUpTo({<<ObjId.commit, "lower">>,
                             <<ObjId.other, "upper">>,
                             <<ObjId.commit, "odd">>}, MaxParents),
            a \in BOOLEAN, c \in BOOLEAN, g \in Signatures, m \in Messages}
        \cup {[shape |-> "tag", commit |-> Plain.commit, tree |-> <<>>,
               tag |-> [object |-> o, type |-> ty, tag |-> tg,
                        tagger |-> tr, message |-> m]] :
            o \in HexForms, ty \in BOOLEAN, tg \in BOOLEAN, tr \in BOOLEAN,
            m \in Messages}
        \cup {[shape |-> "tree", commit |-> Plain.commit, tag |-> Plain.tag,
               tree |-> d] : d \in SeqsUpTo(EntryForms, MaxEntries)}

\* The loose files: the object read, a tree of one file, a commit and a
\* tag, each <kind> SP <size> NUL <payload>.
ObjLoose(w) ==
    LET File(kind, payload) ==
            Deflate(kind \o <<32>> \o Decimal(Len(payload)) \o <<0>>
                    \o payload)
    IN  <<[id |-> ObjId.test,
           z |-> IF w.shape = "commit"
                 THEN File(KindLiteral.commit, CommitPayload(w.commit))
                 ELSE IF w.shape = "tag"
                 THEN File(KindLiteral.tag, TagPayload(w.tag))
                 ELSE File(KindLiteral.tree, TreePayload(w.tree))],
          [id |-> ObjId.subtree,
           z |-> File(KindLiteral.tree,
                      TreePayload(<<[digits |-> <<49, 48, 48, 54, 52, 52>>,
                                     path |-> <<102>>, id |-> IdOf(1)]>>))],
          [id |-> ObjId.commit,
           z |-> File(KindLiteral.commit, CommitPayload(Plain.commit))],
          [id |-> ObjId.tag,
           z |-> File(KindLiteral.tag, TagPayload(Plain.tag))]>>

InitObj ==
    /\ world \in ObjWorlds
    /\ build \in Builds
    /\ loose = ObjLoose(world)
    /\ packs = PacksOf(World(1, <<>>, "none", NoRaw, {}, 1))
    /\ op = "init"
    /\ arg = <<>>
    /\ res = None

ParseCommit ==
    /\ op = "init"
    /\ world.shape = "commit"
    /\ op' = "parse_commit"
    /\ arg' = CommitPayload(world.commit)
    /\ res' = parse_commit(CommitPayload(world.commit))
    /\ UNCHANGED <<loose, packs, build, world>>

ParseTag ==
    /\ op = "init"
    /\ world.shape = "tag"
    /\ op' = "parse_tag"
    /\ arg' = TagPayload(world.tag)
    /\ res' = parse_tag(TagPayload(world.tag))
    /\ UNCHANGED <<loose, packs, build, world>>

NextObj ==
    \/ \E id \in {ObjId.test, ObjId.subtree, ObjId.commit, ObjId.tag,
                  IdOf(1), AbsentId} : Get(id)
    \/ ParseCommit
    \/ ParseTag

SpecObj == InitObj /\ [][NextObj]_vars

\* ------------------------------------------------------------------------
\* What the store holds, read off the files: the vocabulary of the
\* properties below.
\* ------------------------------------------------------------------------

LooseIds == {loose[i].id : i \in 1..Len(loose)}

PackedIds == UNION {DOMAIN packs[j].locations : j \in 1..Len(packs)}

StoredIds == LooseIds \cup PackedIds

\* The number of places (loose files, packs) that hold the id.
Places(id) ==
    Cardinality({i \in 1..Len(loose) : loose[i].id = id})
    + Cardinality({j \in 1..Len(packs) : id \in DOMAIN packs[j].locations})

IsHexString(p) == \A i \in 1..Len(p) : HexVal(p[i]) >= 0

\* A prefix the command line accepts: 4 to 40 hex digits.
IsPrefix(p) ==
    Len(p) >= MIN_USER_HASH_LEN /\ Len(p) <= 2 * SHA1_HASH_SIZE /\ IsHexString(p)

\* The stored ids whose 40 hex digits begin with the digits of p, upper
\* and lower case alike.
Matches(p) ==
    {x \in StoredIds :
        \A i \in 1..Len(p) : HexVal(p[i]) = HexVal(hex_encode(x)[i])}

\* The number of the id among the ids of the model.
IdxOf(id) == CHOOSE i \in 1..NumIds : IdOf(i) = id

\* The object of the pack (0 the base) that holds the id.
ObjOf(id) == IdxOf(id) - 1

\* The bytes the writer stored under the id.
Original(id) == BlobContent(world, IdxOf(id))

Range(s) == {s[i] : i \in 1..Len(s)}

NoDuplicates(s) == \A i, j \in 1..Len(s) : s[i] = s[j] => i = j

\* The id is stored in a pack, and neither its object nor an object of
\* its chain is a reference-delta, has a negative offset that leads out
\* of the chain, or declares a wrong base-size.
Supported(id) ==
    /\ id \in PackedIds
    /\ \A j \in 0..ObjOf(id) : ~IsRefDelta(world, j)
    /\ world.fault \in {"ofs_big", "ofs_zero", "raw"}
           => ObjOf(id) < Len(world.styles)
    /\ world.fault \in {"bs_less", "bs_more"} => ObjOf(id) = 0

\* The id is stored behind a reference-delta, its own or one of its chain.
BehindRefDelta(id) ==
    id \in PackedIds /\ \E j \in 0..ObjOf(id) : IsRefDelta(world, j)

\* ------------------------------------------------------------------------
\* Properties
\* ------------------------------------------------------------------------

\* C1: when the id asked for exists both as a loose file and in a pack,
\* find_backend chooses the loose backend.
C1_LooseTakesPrecedence ==
    (op = "find_backend" /\ arg \in LooseIds /\ arg \in PackedIds)
        => res.backend = "Loose"

\* C2: a prefix of 4 to 40 hex digits, of even or odd length, with which
\* exactly one stored id begins, resolves to that id, in however many
\* places the id is stored.
C2_UniquePrefixResolves ==
    (op = "resolve_id" /\ IsPrefix(arg) /\ Cardinality(Matches(arg)) = 1)
        => (res.st = "some" /\ res.id \in Matches(arg))

\* C3: for a prefix with which two or more stored ids begin, resolve_id
\* returns no id, and the candidates it reports hold every such id and no
\* id twice.
C3_AmbiguousListsEachOnce ==
    (op = "resolve_id" /\ IsPrefix(arg) /\ Cardinality(Matches(arg)) >= 2)
        => /\ res.st = "none"
           /\ Matches(arg) \subseteq Range(res.candidates)
           /\ NoDuplicates(res.candidates)

\* C4, as stated: get returns an object with the id asked for, for every
\* stored id whose bytes are well formed, loose, undeltified or deltified
\* (by offset or by reference); and None for an id that is not stored.
C4_GetReturnsRequestedId ==
    op = "get" =>
        IF arg \notin StoredIds THEN res = None
        ELSE (arg \in LooseIds \/ Supported(arg) \/ BehindRefDelta(arg))
                 => (res.st = "some" /\ res.id = arg)

\* C4, for the ids stored loose, undeltified or behind offset-deltas
\* only: get returns an object with the id asked for, and None for an id
\* that is not stored.
C4_GetReturnsRequestedIdOfs ==
    op = "get" =>
        IF arg \notin StoredIds THEN res = None
        ELSE (arg \in LooseIds \/ Supported(arg))
                 => (res.st = "some" /\ res.id = arg)

\* C5: resolve_id returns no id for a string shorter than 4 or longer
\* than 40 characters, or with a character that is no hex digit, whatever
\* the store holds.
C5_InvalidInputIsRefused ==
    (op = "resolve_id" /\ ~IsPrefix(arg)) => res.st = "none"

\* C6: for a blob stored behind a chain of one or more offset-deltas, get
\* returns the blob's original bytes and the kind of the chain's base.
C6_ChainYieldsOriginalBytes ==
    (op = "get" /\ world.fault = "none" /\ arg \in PackedIds
        /\ ObjOf(arg) >= 1)
        => (res.st = "some" /\ res.kind = "blob" /\ res.data = Original(arg))

\* C7: when the object asked for, or an object of its chain, is a
\* reference-delta (type 7), get returns an error value: it does not panic.
C7_RefDeltaIsAnErrorValue ==
    (op = "get" /\ BehindRefDelta(arg)) => res.st = "none"

\* C8: whatever the instruction block, and whatever the negative offset,
\* delta resolution never panics.
C8_DeltaResolutionNeverPanics ==
    op = "get" => res.st # "panic"

\* C9: the size field of a blob returned by get equals the length of its
\* data, stored loose, undeltified or as an offset-delta.
C9_SizeIsDataLength ==
    (op = "get" /\ res.st = "some" /\ res.kind = "blob")
        => res.size = Len(res.data)

\* C10: cat-file, given a prefix of 4 or more hex digits with which
\* exactly one stored (and readable) object begins, exits with 0 and prints
\* the blob's bytes (-p) or "blob" and LF (-t), loose or packed; a prefix
\* with which no stored id begins gives a non-zero exit code.
C10_CatFilePrintsTheObject ==
    op = "cat-file" =>
        /\ (IsPrefix(arg.id) /\ world.fault = "none"
                /\ Cardinality(Matches(arg.id)) = 1)
            => /\ res.exit = 0
               /\ res.stdout =
                    IF arg.mode = "p"
                    THEN Original(CHOOSE x \in Matches(arg.id) : TRUE)
                    ELSE BlobLiteral \o <<10>>
        /\ (IsPrefix(arg.id) /\ Matches(arg.id) = {}) => res.exit # 0

\* The delta of the store whose instruction block is arbitrary.
IsRawTip(id) ==
    world.fault = "raw" /\ id \in PackedIds /\ ObjOf(id) = Len(world.styles)

\* C11: a buffer is returned for a delta only when its instruction block
\* left the destination cursor at the delta's result-size; a block that
\* produces fewer or more bytes makes the resolution fail.
C11_CursorMeetsResultSize ==
    (op = "get" /\ IsRawTip(arg) /\ res.st = "some")
        => apply_delta(ChainContent(world, ObjOf(arg) - 1),
                       Rep(world.raw.rs, 0), world.raw.instr).dp
               = world.raw.rs

\* C12: when the base-size recorded in the innermost delta differs from the
\* length of the base object, shorter or longer, get returns no object.
C12_BaseSizeMismatchFails ==
    (op = "get" /\ world.fault \in {"bs_less", "bs_more"}
        /\ arg \in PackedIds /\ ObjOf(arg) >= 1)
        => res.st # "some"

\* The run applied a block that is one copy instruction, all its operand
\* bytes present.
IsOneCopy ==
    /\ op = "apply_delta"
    /\ arg.instructions # <<>>
    /\ At(arg.instructions, 0) >= 128
    /\ CopyFields(arg.instructions, 0).data_pointer + 1
           = Len(arg.instructions)

\* C13: a copy instruction whose decoded size is zero, its size bytes
\* absent or all zero, copies 0x10000 bytes of the base from the decoded
\* offset and advances the destination cursor by 0x10000.
C13_ZeroSizeCopies64K ==
    (IsOneCopy
        /\ CopyFields(arg.instructions, 0).size = 0
        /\ CopyFields(arg.instructions, 0).offset + Pow2(16)
               <= Len(ChainContent(world, 0))
        /\ arg.result_size = Pow2(16))
        => /\ res.st = "some"
           /\ res.dp = Pow2(16)
           /\ res.dest =
                  Slice(ChainContent(world, 0),
                        CopyFields(arg.instructions, 0).offset,
                        CopyFields(arg.instructions, 0).offset + Pow2(16))

\* C14: a block with an instruction whose first byte is 0x00 is rejected:
\* apply_delta does not succeed and get does not return the object.
C14_ZeroCommandIsRejected ==
    /\ (op = "apply_delta" /\ arg.instructions # <<>>
            /\ At(arg.instructions, 0) = 0)
           => res.st # "some"
    /\ (op = "get" /\ IsRawTip(arg) /\ world.raw.instr # <<>>
            /\ At(world.raw.instr, 0) = 0)
           => res.st # "some"

\* What an instruction block means, read from the format: the operand
\* bytes of a copy, taken in the order of the bits 0..6 of its command
\* byte from position pos (counted from 1), least significant byte first.
RECURSIVE RefOperands(_, _, _, _, _, _)
RefOperands(instr, cmd, f, pos, offset, size) ==
    IF f = 7 THEN [ok |-> TRUE, pos |-> pos, offset |-> offset, size |-> size]
    ELSE IF Bit(cmd, f) = 0
    THEN RefOperands(instr, cmd, f + 1, pos, offset, size)
    ELSE IF pos > Len(instr) THEN [ok |-> FALSE]
    ELSE IF f <= 3
    THEN RefOperands(instr, cmd, f + 1, pos + 1,
                     offset + instr[pos] * Pow2(8 * f), size)
    ELSE RefOperands(instr, cmd, f + 1, pos + 1,
                     offset, size + instr[pos] * Pow2(8 * (f - 4)))

\* The bytes a block produces from a base, instruction after instruction,
\* and how many instructions it has; not ok when an operand or a literal
\* byte is missing, a command byte is 0x00, a copy has size zero or a copy
\* leaves the base.
RECURSIVE RefRun(_, _, _, _, _)
RefRun(base, instr, pos, out, n) ==
    IF pos > Len(instr) THEN [ok |-> TRUE, out |-> out, n |-> n]
    ELSE IF instr[pos] = 0 THEN [ok |-> FALSE]
    ELSE IF instr[pos] >= 128
    THEN Bind(RefOperands(instr, instr[pos], 0, pos + 1, 0, 0), LAMBDA c :
         IF ~c.ok THEN [ok |-> FALSE]
         ELSE IF c.size = 0 \/ c.offset + c.size > Len(base)
         THEN [ok |-> FALSE]
         ELSE RefRun(base, instr, c.pos,
                     out \o SubSeq(base, c.offset + 1, c.offset + c.size),
                     n + 1))
    ELSE IF pos + instr[pos] > Len(instr) THEN [ok |-> FALSE]
    ELSE RefRun(base, instr, pos + 1 + instr[pos],
                out \o SubSeq(instr, pos + 1, pos + instr[pos]), n + 1)

\* What the block applied by the run means.
RefOfRun == RefRun(ChainContent(world, 0), arg.instructions, 1, <<>>, 0)

\* The run applied a well-formed block whose output fits the destination.
WellFormedRun ==
    /\ op = "apply_delta"
    /\ RefOfRun.ok
    /\ Len(RefOfRun.out) <= arg.result_size

\* C15: for a well-formed block apply_delta succeeds, the destination holds
\* from its start the bytes of the instructions in their order (a copy's
\* base[offset..offset+size] with offset and size rebuilt from the operand
\* bytes its command byte selects, an insert's literal bytes), the cursor
\* is the number of bytes produced and the rest of the destination is
\* untouched.
C15_WellFormedBlockIsApplied ==
    WellFormedRun
        => /\ res.st = "some"
           /\ res.dp = Len(RefOfRun.out)
           /\ Take(res.dest, res.dp) = RefOfRun.out
           /\ Drop(res.dest, res.dp)
                  = Rep(arg.result_size - res.dp, 0)

\* C15, witness: a well-formed block of three instructions, an insert, a
\* copy with an offset byte and a size byte above the lowest, and an
\* insert, has been applied.
C15_Witness ==
    /\ WellFormedRun
    /\ RefOfRun.n = 3
    /\ \E i \in 1..Len(arg.instructions) :
           /\ arg.instructions[i] >= 128
           /\ Bit(arg.instructions[i], 1) = 1
           /\ Bit(arg.instructions[i], 5) = 1
    /\ res.st = "some"
    /\ res.dp = arg.result_size

\* The length of the varint at the start of s: the position of its first
\* byte with the MSB clear, 0 when there is none.
EncLen(s) ==
    IF \A i \in 1..Len(s) : s[i] >= 128 THEN 0
    ELSE CHOOSE i \in 1..Len(s) :
             s[i] < 128 /\ \A j \in 1..(i - 1) : s[j] >= 128

\* n = b0 & 0x7f, then n = ((n + 1) << 7) | (b & 0x7f) for each further
\* byte up to position last, on the integers.
RECURSIVE RefOffset(_, _)
RefOffset(s, last) ==
    IF last = 1 THEN s[1] % 128
    ELSE (RefOffset(s, last - 1) + 1) * 128 + (s[last] % 128)

\* C16: read_negative_relative_offset, on a stream that starts with the
\* bytes b0..bk, MSB set on all but bk, yields n = b0 & 0x7f followed by
\* n = ((n + 1) << 7) | (b & 0x7f) for each further byte and consumes
\* exactly k + 1 bytes, whatever follows them (for the encodings of up to
\* four bytes, whose value the integers of the model hold).
C16_NegativeOffsetDecoding ==
    (op = "read_negative_relative_offset"
        /\ EncLen(arg) >= 1 /\ 7 * EncLen(arg) < 31)
        => /\ res.st = "some"
           /\ res.used = EncLen(arg)
           /\ res.acc \subseteq 0..30
           /\ AsInt(res.acc) = RefOffset(arg, EncLen(arg))

\* C16, witness: an encoding of three bytes followed by a further byte
\* has been read.
C16_Witness ==
    /\ op = "read_negative_relative_offset"
    /\ EncLen(arg) = 3
    /\ Len(arg) = 4
    /\ res.st = "some"
    /\ res.used = 3
    /\ AsInt(res.acc) > Pow2(14)

\* The positions of the one-bits of the value a size varint encodes, its
\* first byte giving lowbits bits and each further byte seven more.
EncodedBits(s, lowbits) ==
    {k \in BitsOf(s[1] % Pow2(lowbits)) : TRUE}
    \cup UNION {{k + lowbits + 7 * (i - 2) : k \in BitsOf(s[i] % 128)} :
                   i \in 2..EncLen(s)}

\* C17: a varint reader given an encoding whose value does not fit in 64
\* bits does not return a value.
C17_OverflowIsAnError ==
    /\ (op = "size_decode" /\ EncLen(arg) >= 1
            /\ \E k \in EncodedBits(arg, 7) : k >= 64)
           => res.st # "some"
    /\ (op = "read_kind_length_obj_header" /\ EncLen(arg) >= 1
            /\ (arg[1] \div 16) % 8 \in {1, 2, 3, 4, 6, 7}
            /\ \E k \in EncodedBits(arg, 4) : k >= 64)
           => res.st # "some"
    /\ (op = "read_negative_relative_offset" /\ EncLen(arg) >= 1
            /\ 7 * (EncLen(arg) - 1) >= 64)
           => res.st # "some"

\* The ids of the index file parsed.
IdxIdsOf(d) == {IdxId(i) : i \in 1..d.n}

\* C18: for a whole v2 index whose large offsets use distinct entries of
\* the 8-byte table, however many and in whatever order, the parsed mapping
\* has exactly the N ids; id i maps to the i-th 4-byte offset when its MSB is
\* clear and to the entry of the 8-byte table at the index given by its
\* other 31 bits when it is set.
C18_V2OffsetsAreResolved ==
    (op = "parse_pack_idx" /\ arg.version = 2 /\ arg.cut = 0
        /\ \A i, j \in 1..arg.n :
               (i # j /\ arg.entries[i].large /\ arg.entries[j].large)
                   => arg.entries[i].k # arg.entries[j].k)
        => /\ res.st = "some"
           /\ DOMAIN res.locations = IdxIdsOf(arg)
           /\ \A i \in 1..arg.n :
                  res.locations[IdxId(i)] =
                      IF arg.entries[i].large THEN Large8(arg.entries[i].k)
                      ELSE Widen(Direct4(i))

\* C19: a whole index file that does not start with the magic is read as
\* v1: the count is the 256th fan-out word, and the mapping has exactly the
\* N pairs of the records, a 32-bit big-endian offset and a 20-byte id
\* each; an index with the magic and a version other than 2 is rejected.
C19_V1IndexAndBadVersion ==
    /\ (op = "parse_pack_idx" /\ arg.version = 1 /\ arg.cut = 0)
           => /\ res.st = "some"
              /\ DOMAIN res.locations = IdxIdsOf(arg)
              /\ \A i \in 1..arg.n :
                     res.locations[IdxId(i)] = Widen(V1Offset(arg, i))
    /\ (op = "parse_pack_idx" /\ arg.version \notin {1, 2})
           => res.st = "none"

\* C19, witness: a v1 index of three records, its first fan-out word not
\* zero and one offset with the MSB set, has been parsed.
C19_Witness ==
    /\ op = "parse_pack_idx"
    /\ arg.version = 1
    /\ arg.cut = 0
    /\ arg.n = 3
    /\ Take(IdxFile(arg), 4) = <<0, 0, 0, 1>>
    /\ \E i \in 1..arg.n : arg.entries[i].large
    /\ res.st = "some"
    /\ Cardinality(DOMAIN res.locations) = 3

\* The packs, in enumeration order, whose index lists the id.
PacksListing(id) == {i \in 1..Len(packs) : id \in DOMAIN packs[i].locations}

\* C20: when more than one pack index lists the id asked for, the object
\* is read from the pack of the first of those indexes in enumeration
\* order.
C20_FirstListingPackIsRead ==
    (op = "get" /\ Cardinality(PacksListing(arg)) > 1
        /\ arg \notin LooseIds /\ res.st = "some")
        => res.pack =
               packs[CHOOSE i \in PacksListing(arg) :
                         \A j \in PacksListing(arg) : i <= j].name

\* C21: the walk of a delta chain terminates for every pack content: get
\* returns, with an object, an error value or a panic; a negative offset of
\* 0 is not followed.
C21_ChainWalkTerminates ==
    op = "get" => res.st # "hang"

\* C25: whenever resolve_id, given hex digits p, returns an id, the 40 hex
\* digits of that id begin with every digit of p, upper and lower case
\* alike, also when p has an odd number of digits.
C25_ResolvedIdBeginsWithPrefix ==
    (op = "resolve_id" /\ IsHexString(arg) /\ res.st = "some")
        => \A i \in 1..Len(arg) :
               HexVal(arg[i]) = HexVal(hex_encode(res.id)[i])

\* The lines joined by single newlines.
RECURSIVE Joined(_)
Joined(lines) ==
    IF Len(lines) = 1 THEN lines[1]
    ELSE lines[1] \o <<10>> \o Joined(Tail(lines))

\* The forms of 40 hex digits.
GoodForms == {"lower", "upper"}

\* A commit description with every mandatory header and every id written
\* as 40 hex digits.
CommitIsWellFormed(d) ==
    /\ d.tree \in GoodForms
    /\ \A i \in 1..Len(d.parents) : d.parents[i][2] \in GoodForms
    /\ d.author
    /\ d.committer

\* A tag description with every mandatory header and the object written as
\* 40 hex digits.
TagIsWellFormed(d) ==
    d.object \in GoodForms /\ d.type /\ d.tag /\ d.tagger

\* The commit under test was parsed: by parse_commit, or by get of its id.
CommitWasParsed ==
    /\ world.shape = "commit"
    /\ op = "parse_commit" \/ (op = "get" /\ arg = ObjId.test)

\* The tag under test was parsed: by parse_tag, or by get of its id.
TagWasParsed ==
    /\ world.shape = "tag"
    /\ op = "parse_tag" \/ (op = "get" /\ arg = ObjId.test)

\* C22: parse_commit returns the parent ids in the order of their parent
\* headers; the gpgsig value is its first line and every continuation
\* line without the leading SP, joined by single newlines; the message is
\* the bytes after the first empty line.
C22_CommitFieldsFollowThePayload ==
    (CommitWasParsed /\ CommitIsWellFormed(world.commit))
        => /\ res.st = "some"
           /\ res.kind = "commit"
           /\ res.parents = [i \in 1..Len(world.commit.parents) |->
                                world.commit.parents[i][1]]
           /\ res.gpgsig = (IF world.commit.gpgsig = <<>> THEN <<>>
                            ELSE <<Joined(world.commit.gpgsig)>>)
           /\ res.message = world.commit.message

\* C22: a commit with two parents, a signature of four lines and a message
\* with an empty line of its own was parsed.
C22_Witness ==
    /\ op = "parse_commit"
    /\ CommitIsWellFormed(world.commit)
    /\ Len(world.commit.parents) = 2
    /\ world.commit.parents[1][1] # world.commit.parents[2][1]
    /\ Len(world.commit.gpgsig) = 4
    /\ world.commit.message # <<>>
    /\ res.st = "some"
    /\ res.parents = <<ObjId.other, ObjId.commit>>

Retrievable(e) == get(e.id).st = "some"

\* The entry parse_tree is to return for an entry of the payload.
EntryOf(e) ==
    [mode |-> e.mode, kind |-> type_str(get(e.id)), path |-> e.path,
     id |-> e.id]

\* The tree under test was read by get.
TreeWasRead == world.shape = "tree" /\ op = "get" /\ arg = ObjId.test

\* C24: for a tree of k well-formed entries whose ids are all retrievable,
\* get returns a Tree of exactly these k entries in payload order, with
\* mode the octal value, path the bytes before the NUL, id the 20 bytes and
\* kind the type label of the object of the id; when an id is not
\* retrievable, get returns no object.
C24_TreeEntriesFollowThePayload ==
    TreeWasRead
        => IF \A i \in 1..Len(world.tree) : Retrievable(world.tree[i])
           THEN /\ res.st = "some"
                /\ res.kind = "tree"
                /\ res.entries = [i \in 1..Len(world.tree) |->
                                     EntryOf(world.tree[i])]
           ELSE res.st = "none"

====
